---- MODULE Spec2Model ----
(***************************************************************************)
(* State-machine model of the TMAO multi-agent orchestrator.               *)
(*                                                                         *)
(*  - SpecOrch: CoordinatorAgent.orchestrate / process_task driving the    *)
(*    Planner -> Builder -> Reviewer pipeline through _execute_with_retry  *)
(*    and the store-based hand-off, on one shared MemoryManager.           *)
(*  - SpecPar: BuilderAgent._execute_parallel, the semaphore-bounded       *)
(*    fan-out of the subtasks of one build.                                *)
(*  - SpecBuild: BuilderAgent.process_task, its preconditions and the      *)
(*    sequential loop with single-retry recovery.                          *)
(*  - SpecMem, SpecTtl, SpecRet: a MemoryManager driven through store,     *)
(*    get, retrieve, cleanup and delete: contents and their serialisation, *)
(*    expiry, and filtering and ranking.                                   *)
(*  - SpecHist: the history queries of the four agents on the store the    *)
(*    pipeline fills.                                                      *)
(*                                                                         *)
(* Abstractions.  A record's embedding is md5(content) scaled to a unit    *)
(* vector; the model keeps only its class emb \in EmbClasses, and the      *)
(* cosine similarity to a query text is a fixed table over (query, class). *)
(* Structured contents carry a loop timestamp, so their class is an input  *)
(* drawn at write time; log lines and canned subtask outputs are fixed     *)
(* texts and get a fixed class.  uuid4 ids are a fresh counter and         *)
(* created_at follows the order of writes.                                 *)
(***************************************************************************)
EXTENDS Integers, Sequences, FiniteSets, TLC

VARIABLES
    memory,        \* MemoryManager: [items: sequence of MemoryItem, next: next fresh id]
    max_retries,   \* CoordinatorAgent.max_retries
    created,       \* sub-agents the Coordinator has created so far
    active,        \* CoordinatorAgent._active_orchestrations: id -> [task, status, result, error]
    now,           \* event-loop clock (asyncio loop.time()), in abstract ticks
    orch,          \* the orchestrate() call in progress or last finished
    calls,         \* stage_func invocations of that call: <<[stage, attempt, ok, id]>>
    sleeps,        \* backoff sleeps of that call: <<[stage, attempt, secs]>>
    ndirect,       \* PlannerAgent.process_task runs made before the orchestration
    par,           \* one BuilderAgent._execute_parallel run
    bld,           \* one BuilderAgent.process_task run (preconditions, sequential loop)
    mm,            \* a MemoryManager driven through its own API: store contents, clock, cache
    mop,           \* the last MemoryManager call made on mm and what it returned
    hist,          \* the last history query of an agent and the ids it returned
    rev,           \* a ReviewerAgent used on its own: the Scoring run in hand or last finished
    ag,            \* lifecycle flags of the four agents and the last call made on one of them
    bus,           \* EventBus: subscriber lists and the last publish
    opt            \* a PlannerAgent's store of plans and its last optimize_plan call

vars == <<memory, max_retries, created, active, now, orch, calls, sleeps, ndirect, par, bld,
          mm, mop, hist, rev, ag, bus, opt>>

\* Variables of the components that have a specification of their own.
extVars == <<rev, ag, bus, opt>>

\* State of the components an Orchestrator or parallel-execution step leaves alone.
restVars == <<bld, mm, mop, hist, extVars>>

(***************************************************************************)
(* Bounds                                                                  *)
(***************************************************************************)
MaxRetriesBound == 1      \* max_retries is drawn from 0..MaxRetriesBound
MaxDirect == 1            \* earlier planner runs on the shared memory
NumSubtasks == 2          \* subtasks of every plan
MaxParSubtasks == 4       \* subtasks given to _execute_parallel
MaxConcurrencyBound == 2  \* max_concurrency is drawn from 1..MaxConcurrencyBound

Tasks == {"t1", "t2"}

Stages == <<"planning", "building", "reviewing">>

(***************************************************************************)
(* MemoryManager                                                           *)
(***************************************************************************)
NoEmb == -1
EmbClasses == {0, 1, 2}

\* Classes drawn for a structured content (its JSON text carries timestamps,
\* so its digest differs from write to write): with the table below each of
\* the three hand-off queries sees one of them above and one below the logs
\* or the threshold.
DrawnEmb == {0, 2}
SimThreshold == 1         \* MemoryQuery.threshold (0.7) on the abstract scale
QueryLimit == 10          \* limit=10 of the hand-off queries

\* Offset of a query text in the similarity table.
QueryOffset(text) ==
    CASE text = "task" -> 0
      [] text = "build" -> 1
      [] text = "review" -> 2
      [] OTHER -> 0

\* np.dot(q_embed, m.embedding) / (norms): abstract level 0..2; the level
\* depends on both the query text and the record's fingerprint.
Similarity(text, emb) == (emb + QueryOffset(text)) % 3

\* Fixed texts have fixed fingerprints.
LogEmb(style) ==
    CASE style \in {"thought", "action", "error"} -> 2
      [] OTHER -> 1

SubtaskEmb(index) == index % 3

ErrorEmb == 1
ReportEmb == 0

EmptyMemory == [items |-> <<>>, next |-> 1]

\* MemoryManager.store: fresh id, created_at = now(), item appended to _store.
Store(m, item) ==
    [items |-> Append(m.items, [item EXCEPT !.id = m.next, !.created_at = m.next]),
     next |-> m.next + 1]

Item(kind, content, ptype, tags, agent, task, plan_id, emb) ==
    [id |-> 0, created_at |-> 0, kind |-> kind, content |-> content,
     ptype |-> ptype, tags |-> tags, agent |-> agent, task |-> task,
     plan_id |-> plan_id, emb |-> emb]

\* BaseAgent.log: the message is also stored as an episodic text record.
Log(m, agent, style) ==
    Store(m, Item("episodic", "str", "none", {"log", style, agent}, agent,
                  "none", 0, LogEmb(style)))

RECURSIVE Logs(_, _, _)
Logs(m, agent, styles) ==
    IF styles = <<>> THEN m
    ELSE Logs(Log(m, agent, Head(styles)), agent, Tail(styles))

\* BaseAgent.handle_error: an error log line, then a structured error record.
HandleError(m, agent) ==
    Store(Log(m, agent, "error"),
          Item("episodic", "dict", "none", {"error", agent, "ValueError"}, agent,
               "none", 0, ErrorEmb))

\* sorted(scored, key=sim, reverse=True): stable, so equal similarities keep
\* the insertion order of _store.
RECURSIVE Ranked(_, _, _)
Ranked(items, text, level) ==
    IF level < SimThreshold THEN <<>>
    ELSE SelectSeq(items, LAMBDA r: r.emb # NoEmb /\ Similarity(text, r.emb) = level)
         \o Ranked(items, text, level - 1)

Truncate(s, n) == IF Len(s) <= n THEN s ELSE SubSeq(s, 1, n)

\* MemoryManager.retrieve with a query text, a memory_type filter and a limit.
Retrieve(m, text, kind, limit) ==
    Truncate(Ranked(SelectSeq(m.items, LAMBDA r: r.kind = kind), text, 2), limit)

\* MemoryManager.get: <<item>>, or <<>> for None
Get(m, id) == SelectSeq(m.items, LAMBDA r: r.id = id)

SeqToSet(s) == {s[i] : i \in 1..Len(s)}

\* x.sort(key=created_at, reverse=True); x[0].id  -- 0 when the list is empty
NewestId(rs) ==
    IF rs = {} THEN 0
    ELSE (CHOOSE r \in rs : \A q \in rs : q.created_at <= r.created_at).id

(***************************************************************************)
(* MemoryManager in detail: contents, serialisation, expiry, retrieval     *)
(*                                                                         *)
(* mm is a MemoryManager of its own, driven call by call.  A Python value  *)
(* is [py, s, items]: its type, its text (str, int, datetime) and its      *)
(* elements (list, tuple; a dict holds "pair" values <<key, value>>).  A   *)
(* str whose text is a JSON document is written JsonText(j), j being the   *)
(* value the document denotes; every other str is PyStr(s).  Time is       *)
(* counted in minutes.  A record also keeps the content and the ttl its    *)
(* writer gave (given, ttl), which the code does not keep: only the        *)
(* properties read them.                                                   *)
(***************************************************************************)
MaxMemItems == 2          \* store() calls made on mm
MaxClock == 2             \* minutes that pass on mm's clock
CacheCeiling == 2         \* stands for the 1000 of len(self._embedding_cache) < 1000
CacheKeep == 1            \* stands for the 500 entries cleanup() keeps

NoTtl == -1               \* expires_in=None
NoExpiry == -1            \* expires_at=None

PyVal(py, s, items) == [py |-> py, s |-> s, items |-> items]
PyStr(s) == PyVal("str", s, <<>>)
PyInt(s) == PyVal("int", s, <<>>)
PyNone == PyVal("NoneType", "", <<>>)
PyList(items) == PyVal("list", "", items)
PyTuple(items) == PyVal("tuple", "", items)
PyPair(k, v) == PyVal("pair", "", <<k, v>>)
PyDict(pairs) == PyVal("dict", "", pairs)

\* The str holding the JSON document of the JSON value j.
JsonText(j) == PyVal("str", "json", <<j>>)

\* json.dumps raises TypeError on a dict key that is not str, int, float,
\* bool or None; default=str covers values only.
RECURSIVE Dumpable(_)
Dumpable(x) ==
    CASE x.py = "dict" ->
           \A k \in 1..Len(x.items) :
              /\ x.items[k].items[1].py \in {"str", "int", "NoneType"}
              /\ Dumpable(x.items[k].items[2])
      [] x.py \in {"list", "tuple"} -> \A k \in 1..Len(x.items) : Dumpable(x.items[k])
      [] OTHER -> TRUE

\* A dict key as the JSON encoder writes it: always a string.
KeyText(k) ==
    CASE k.py = "int" -> PyStr(k.s)
      [] k.py = "NoneType" -> PyStr("null")
      [] OTHER -> k

\* The value denoted by json.dumps(x, default=str): keys become strings,
\* tuples become arrays, anything the encoder does not know becomes str(x).
RECURSIVE JsonValue(_)
JsonValue(x) ==
    CASE x.py = "dict" ->
           PyDict([k \in 1..Len(x.items) |->
                     PyPair(KeyText(x.items[k].items[1]), JsonValue(x.items[k].items[2]))])
      [] x.py \in {"list", "tuple"} ->
           PyList([k \in 1..Len(x.items) |-> JsonValue(x.items[k])])
      [] x.py \in {"str", "int", "NoneType"} -> x
      [] OTHER -> PyStr(x.s)

\* json.dumps(content, default=str)
JsonDumps(x) == JsonText(JsonValue(x))

\* json.loads(text) succeeds / its value
JsonParses(text) == text.py = "str" /\ text.items # <<>>
JsonLoads(text) == text.items[1]

\* len(text.strip()) > 0 fails
Blank(text) == text.items = <<>> /\ text.s \in {"", "  "}

\* stripped.startswith('{') and stripped.endswith('}'), or the same with [ ]
LooksStructured(text) ==
    IF text.items # <<>> THEN text.items[1].py \in {"dict", "list"}
    ELSE text.s \in {"{oops}", "[x]"}

\* md5 digest of a text, reduced to its class.
TypeCode(py) ==
    CASE py = "dict" -> 1
      [] py = "list" -> 2
      [] py = "int" -> 1
      [] py = "pair" -> 0
      [] OTHER -> 0

LabelCode(s) ==
    CASE s \in {"note", "task", "1"} -> 0
      [] s \in {"42", "build", "{oops}", "a"} -> 1
      [] OTHER -> 2

RECURSIVE Weight(_)
RECURSIVE SumWeights(_)
Weight(x) == TypeCode(x.py) + LabelCode(x.s) + SumWeights(x.items)
SumWeights(xs) == IF xs = <<>> THEN 0 ELSE Weight(Head(xs)) + SumWeights(Tail(xs))

Md5Class(text) == Weight(text) % 3

\* self._embedding_cache[text]
CacheHit(cache, text) == \E k \in 1..Len(cache) : cache[k].text = text
CachedEmb(cache, text) ==
    cache[CHOOSE k \in 1..Len(cache) : cache[k].text = text].emb

\* MemoryManager._embed: the vector returned, and the cache afterwards
Embed(cache, text) ==
    IF CacheHit(cache, text) THEN CachedEmb(cache, text) ELSE Md5Class(text)

\* Variant: every new text is cached, whatever the size of the cache.
EmbedCacheUnbounded(cache, text) ==
    IF CacheHit(cache, text) THEN cache
    ELSE Append(cache, [text |-> text, emb |-> Md5Class(text)])

\* if len(self._embedding_cache) < 1000: self._embedding_cache[text] = embedding
EmbedCache(cache, text) ==
    IF CacheHit(cache, text) \/ Len(cache) >= CacheCeiling THEN cache
    ELSE Append(cache, [text |-> text, emb |-> Md5Class(text)])

\* np.dot(q, e) / (|q| |e|) on the abstract scale: 2 for equal vectors.
Cosine(q, e) ==
    IF q = e THEN 2 ELSE IF {q, e} = {0, 1} THEN 1 ELSE 0

EmptyMM == [items |-> <<>>, next |-> 1, clock |-> 0, cache |-> <<>>]

NoQuery == [text |-> PyNone, kind |-> "none", tags |-> {}, limit |-> 0, threshold |-> 0]

NoOp == [op |-> "none", id |-> 0, found |-> FALSE, content |-> PyNone, q |-> NoQuery,
         ids |-> <<>>, sims |-> <<>>, contents |-> <<>>, count |-> 0, before |-> <<>>,
         hit |-> FALSE, emb |-> NoEmb]

\* The _content_type marker store() puts into the metadata.
ContentMarker(content) ==
    IF content.py \in {"dict", "list"}
    THEN IF Dumpable(content) THEN content.py ELSE "none"
    ELSE IF JsonParses(content) THEN "json_string" ELSE "none"

\* processed_content of store()
Processed(content) ==
    IF content.py \in {"dict", "list"} /\ Dumpable(content) THEN JsonDumps(content)
    ELSE content

\* if expires_in:
HasTtl(ttl) == ttl # NoTtl /\ ttl # 0

\* MemoryManager.store(content, memory_type, tags=tags, expires_in=ttl)
MemStore(content, kind, tags, ttl) ==
    /\ Len(mm.items) < MaxMemItems /\ mm.next <= MaxMemItems
    /\ LET processed == Processed(content)
           embeds == processed.py = "str" /\ ~Blank(processed)
           item == [id |-> mm.next, kind |-> kind, content |-> processed,
                    marker |-> ContentMarker(content), tags |-> tags,
                    expires_at |-> IF HasTtl(ttl) THEN mm.clock + ttl ELSE NoExpiry,
                    embedding |-> IF embeds THEN Embed(mm.cache, processed) ELSE NoEmb,
                    created_at |-> mm.clock, given |-> content, ttl |-> ttl]
       IN /\ mm' = [mm EXCEPT !.items = Append(@, item), !.next = @ + 1,
                              !.cache = IF embeds THEN EmbedCache(@, processed) ELSE @]
          /\ mop' = [NoOp EXCEPT !.op = "store", !.id = mm.next, !.found = TRUE,
                                 !.content = content,
                                 !.hit = embeds /\ CacheHit(mm.cache, processed),
                                 !.emb = item.embedding]
    /\ UNCHANGED <<memory, max_retries, created, active, now, orch, calls, sleeps, ndirect,
                   par, bld, hist, extVars>>

\* Variant: an unmarked text that looks structured but does not parse is
\* replaced by None.
RestoreDropsUnparsed(item) ==
    IF item.content.py # "str" THEN item
    ELSE IF item.marker \in {"dict", "list", "json_string"}
    THEN IF JsonParses(item.content)
         THEN [item EXCEPT !.content = JsonLoads(item.content), !.marker = "none"]
         ELSE item
    ELSE IF LooksStructured(item.content)
         THEN [item EXCEPT !.content = IF JsonParses(item.content)
                                       THEN JsonLoads(item.content) ELSE PyNone]
         ELSE item

\* The parse pass of get() and retrieve() on one item (the item is changed in place).
Restore(item) ==
    IF item.content.py # "str" THEN item
    ELSE IF item.marker \in {"dict", "list", "json_string"}
    THEN IF JsonParses(item.content)
         THEN [item EXCEPT !.content = JsonLoads(item.content), !.marker = "none"]
         ELSE item
    ELSE IF LooksStructured(item.content) /\ JsonParses(item.content)
         THEN [item EXCEPT !.content = JsonLoads(item.content)]
         ELSE item

Position(items, id) == CHOOSE k \in 1..Len(items) : items[k].id = id
Holds(items, id) == \E k \in 1..Len(items) : items[k].id = id

\* MemoryManager.get(memory_id)
MemGet(id) ==
    /\ IF Holds(mm.items, id)
       THEN LET k == Position(mm.items, id)
                item == Restore(mm.items[k])
            IN /\ mm' = [mm EXCEPT !.items[k] = item]
               /\ mop' = [NoOp EXCEPT !.op = "get", !.id = id, !.found = TRUE,
                                      !.content = item.content]
       ELSE /\ mm' = mm
            /\ mop' = [NoOp EXCEPT !.op = "get", !.id = id]
    /\ UNCHANGED <<memory, max_retries, created, active, now, orch, calls, sleeps, ndirect,
                   par, bld, hist, extVars>>

\* if query.text:
HasText(q) == q.text.py = "str" /\ q.text.s # ""

\* v.expires_at and now > v.expires_at
Expired(m, clock) == m.expires_at # NoExpiry /\ clock > m.expires_at

\* Variant: retrieve() also leaves out the records whose expiry has passed.
PassesFiltersUnexpired(m, q) ==
    /\ q.kind = "none" \/ m.kind = q.kind
    /\ q.tags = {} \/ q.tags \cap m.tags # {}
    /\ ~Expired(m, mm.clock)

\* if query.memory_type: ... if query.tags: ... (both filters of retrieve)
PassesFilters(m, q) ==
    /\ q.kind = "none" \/ m.kind = q.kind
    /\ q.tags = {} \/ q.tags \cap m.tags # {}

\* sorted(scored, key=sim, reverse=True) of the items at or above the
\* threshold: stable, so equal similarities keep the order of _store.
RECURSIVE RankedBy(_, _, _, _)
RankedBy(items, qe, threshold, level) ==
    IF level < threshold \/ level < 0 THEN <<>>
    ELSE SelectSeq(items, LAMBDA m : m.embedding # NoEmb /\ Cosine(qe, m.embedding) = level)
         \o RankedBy(items, qe, threshold, level - 1)

\* Variant: the slice is taken before the filters run.
MatchedSliceFirst(items, q, qe) ==
    LET cut == Truncate(items, q.limit)
        filtered == SelectSeq(cut, LAMBDA m : PassesFilters(m, q))
    IN IF HasText(q) THEN RankedBy(filtered, qe, q.threshold, 2) ELSE filtered

\* retrieve() up to results[:query.limit]: the records in the order returned
Matched(items, q, qe) ==
    LET filtered == SelectSeq(items, LAMBDA m : PassesFilters(m, q))
        ranked == IF HasText(q) THEN RankedBy(filtered, qe, q.threshold, 2) ELSE filtered
    IN Truncate(ranked, q.limit)

IdsOf(items) == [k \in 1..Len(items) |-> items[k].id]

\* The parse pass of retrieve(): only the returned records are restored.
RestoreReturned(items, ids) ==
    [k \in 1..Len(items) |->
       IF \E j \in 1..Len(ids) : ids[j] = items[k].id THEN Restore(items[k])
       ELSE items[k]]

\* MemoryManager.retrieve(query)
MemRetrieve(q) ==
    LET qe == IF HasText(q) THEN Embed(mm.cache, q.text) ELSE NoEmb
        results == Matched(mm.items, q, qe)
        ids == IdsOf(results)
    IN /\ mm' = [mm EXCEPT !.items = RestoreReturned(@, ids),
                           !.cache = IF HasText(q) THEN EmbedCache(@, q.text) ELSE @]
       /\ mop' = [NoOp EXCEPT !.op = "retrieve", !.q = q, !.ids = ids,
                              !.contents = [k \in 1..Len(results) |->
                                              Restore(results[k]).content],
                              !.sims = [k \in 1..Len(results) |->
                                          IF HasText(q)
                                          THEN Cosine(qe, results[k].embedding)
                                          ELSE 0],
                              !.hit = HasText(q) /\ CacheHit(mm.cache, q.text),
                              !.emb = qe]
       /\ UNCHANGED <<memory, max_retries, created, active, now, orch, calls, sleeps,
                      ndirect, par, bld, hist, extVars>>

\* Variant: a cache that has reached the ceiling is cut as well.
CacheTooLargeAtCeiling(n) == n >= CacheCeiling

\* if len(self._embedding_cache) > 1000:
CacheTooLarge(n) == n > CacheCeiling

\* MemoryManager.cleanup()
MemCleanup ==
    LET expired == SelectSeq(mm.items, LAMBDA m : Expired(m, mm.clock))
        kept == SelectSeq(mm.items, LAMBDA m : ~Expired(m, mm.clock))
        n == Len(mm.cache)
    IN /\ mm' = [mm EXCEPT !.items = kept,
                           !.cache = IF CacheTooLarge(n)
                                     THEN SubSeq(@, n - CacheKeep + 1, n) ELSE @]
       /\ mop' = [NoOp EXCEPT !.op = "cleanup", !.count = Len(expired),
                              !.before = mm.items]
       /\ UNCHANGED <<memory, max_retries, created, active, now, orch, calls, sleeps,
                      ndirect, par, bld, hist, extVars>>

\* MemoryManager.delete(memory_id)
MemDelete(id) ==
    /\ mm' = [mm EXCEPT !.items = SelectSeq(@, LAMBDA m : m.id # id)]
    /\ mop' = [NoOp EXCEPT !.op = "delete", !.id = id, !.found = Holds(mm.items, id)]
    /\ UNCHANGED <<memory, max_retries, created, active, now, orch, calls, sleeps,
                   ndirect, par, bld, hist, extVars>>

\* A minute passes (datetime.now() as seen by store() and cleanup()).
MemTick ==
    /\ mm.clock < MaxClock
    /\ mm' = [mm EXCEPT !.clock = @ + 1]
    /\ mop' = [NoOp EXCEPT !.op = "tick"]
    /\ UNCHANGED <<memory, max_retries, created, active, now, orch, calls, sleeps,
                   ndirect, par, bld, hist, extVars>>

(***************************************************************************)
(* Sub-agents as seen by the Coordinator                                   *)
(***************************************************************************)
\* BaseAgent.initialize of a sub-agent the Coordinator creates on first use.
EnsureAgent(m, cr, key, agent) ==
    IF key \in cr THEN m ELSE Log(m, agent, "success")

\* PlannerAgent._store_subtasks: one procedural text record per subtask.
RECURSIVE StoreSubtasks(_, _, _)
StoreSubtasks(m, task, i) ==
    IF i >= NumSubtasks THEN m
    ELSE StoreSubtasks(
           Store(m, Item("procedural", "str", "none", {"subtask", "planned"},
                         "Planner", task, 0, SubtaskEmb(i))),
           task, i + 1)

\* PlannerAgent.process_task.  fails: the task raises inside its try block.
PlannerProcessTask(m, task, fails, emb) ==
    IF fails THEN HandleError(m, "Planner")
    ELSE LET m1 == Logs(m, "Planner",
                        <<"action", "info", "info", "thought", "thought", "info">>)
             m2 == Store(m1, Item("working", "dict", "task_decomposition",
                                  {"plan", "decomposition"}, "Planner", task, 0, emb))
             m3 == Logs(m2, "Planner", <<"info", "info", "success", "info">>)
         IN StoreSubtasks(m3, task, 0)

\* BuilderAgent._execute_subtask of every subtask of the plan: each stores its
\* canned output as a working text record tagged "execution".
RECURSIVE StoreSubtaskResults(_, _)
StoreSubtaskResults(m, i) ==
    IF i >= NumSubtasks THEN m
    ELSE StoreSubtaskResults(
           Store(m, Item("working", "str", "none", {"subtask_result", "execution"},
                         "Builder", "none", 0, SubtaskEmb(i))),
           i + 1)

\* BuilderAgent.process_task with plan_id and plan_data in the context
\* (parallel mode, the Coordinator's default).
BuilderProcessTask(m, task, plan_id, fails, emb) ==
    IF fails THEN HandleError(m, "Builder")
    ELSE LET m1 == Logs(m, "Builder",
                        <<"action", "info", "info", "info", "info", "info", "info">>)
             m2 == StoreSubtaskResults(m1, 0)
             m3 == Logs(m2, "Builder", <<"info", "info", "success">>)
             m4 == Store(m3, Item("working", "dict", "none",
                                  {"execution", "build", "complete", "result", "Builder"},
                                  "Builder", task, plan_id, emb))
         IN Log(m4, "Builder", "info")

\* ReviewerAgent.process_task with execution_data in the context, ending in
\* _store_review.
ReviewerProcessTask(m, plan_id, fails, emb) ==
    IF fails THEN HandleError(m, "Reviewer")
    ELSE LET m1 == Logs(m, "Reviewer",
                        <<"action", "info", "info", "info", "info", "info", "info",
                          "thought", "thought", "info", "result">>)
             m2 == Store(m1, Item("episodic", "dict", "execution_review",
                                  {"review", "evaluation", "quality_assessment"},
                                  "Reviewer", "none", plan_id, emb))
         IN Logs(m2, "Reviewer", <<"info", "info">>)

(***************************************************************************)
(* Hand-off queries of the Coordinator                                     *)
(***************************************************************************)
PlanMatches(m, task) ==
    {r \in SeqToSet(Retrieve(m, "task", "working", QueryLimit)) :
        r.ptype = "task_decomposition" /\ r.content = "dict" /\ r.task = task}

ExecutionMatches(m, task) ==
    {r \in SeqToSet(Retrieve(m, "build", "working", QueryLimit)) :
        ("execution" \in r.tags \/ "build" \in r.tags)
        /\ r.content = "dict" /\ r.task = task}

ReviewMatches(m, plan_id) ==
    {r \in SeqToSet(Retrieve(m, "review", "episodic", QueryLimit)) :
        r.ptype = "execution_review" /\ r.content = "dict" /\ r.plan_id = plan_id}

\* memory.get(id) found a record whose content is a dict.
IsDictRecord(m, id) ==
    LET hit == Get(m, id) IN hit # <<>> /\ Head(hit).content = "dict"

\* The three stage functions return [mem, cr, raised, id]: raised tells that
\* process_task (or a precondition check before it) raised, id = 0 that the
\* stage function raised ValueError, else id is the id read from the store.
\* Variant: an empty hand-off query does not raise; the stage returns a
\* placeholder id instead.
RunPlannerStageNoRaise(m, cr, task, fails, emb) ==
    LET m1 == PlannerProcessTask(EnsureAgent(m, cr, "planner", "Planner"), task, fails, emb)
        found == NewestId(PlanMatches(m1, task))
    IN [mem |-> m1, cr |-> cr \cup {"planner"}, raised |-> fails,
        id |-> IF fails THEN 0 ELSE IF found = 0 THEN -1 ELSE found]

RunPlannerStage(m, cr, task, fails, emb) ==
    LET m1 == PlannerProcessTask(EnsureAgent(m, cr, "planner", "Planner"), task, fails, emb)
    IN [mem |-> m1, cr |-> cr \cup {"planner"}, raised |-> fails,
        id |-> IF fails THEN 0 ELSE NewestId(PlanMatches(m1, task))]

RunBuilderStage(m, cr, task, plan_id, fails, emb) ==
    LET m0 == EnsureAgent(m, cr, "builder", "Builder")
        m1 == BuilderProcessTask(m0, task, plan_id, fails, emb)
    IN IF ~IsDictRecord(m0, plan_id)
       THEN [mem |-> m0, cr |-> cr \cup {"builder"}, raised |-> TRUE, id |-> 0]
       ELSE [mem |-> m1, cr |-> cr \cup {"builder"}, raised |-> fails,
             id |-> IF fails THEN 0 ELSE NewestId(ExecutionMatches(m1, task))]

RunReviewerStage(m, cr, plan_id, execution_id, fails, emb) ==
    LET m0 == EnsureAgent(m, cr, "reviewer", "Reviewer")
        m1 == ReviewerProcessTask(m0, plan_id, fails, emb)
    IN IF ~IsDictRecord(m0, execution_id)
       THEN [mem |-> m0, cr |-> cr \cup {"reviewer"}, raised |-> TRUE, id |-> 0]
       ELSE [mem |-> m1, cr |-> cr \cup {"reviewer"}, raised |-> fails,
             id |-> IF fails THEN 0 ELSE NewestId(ReviewMatches(m1, plan_id))]

(***************************************************************************)
(* CoordinatorAgent.orchestrate and _execute_with_retry                    *)
(***************************************************************************)
RECURSIVE Pow2(_)
Pow2(n) == IF n = 0 THEN 1 ELSE 2 * Pow2(n - 1)

Status(s, n) == [s |-> s, n |-> n]

\* last_error = None; an exception is told apart by the attempt that raised it.
NoError == [stage |-> "none", attempt |-> -1]

IdleOrch ==
    [phase |-> "idle", entry |-> "orchestrate", task |-> "none", id |-> 0,
     stage |-> 1, attempt |-> 0, plan_id |-> 0, execution_id |-> 0,
     review_id |-> 0, start |-> 1, last_error |-> NoError, raised |-> NoError]

SetStatus(a, id, st) == [a EXCEPT ![id].status = st]

\* An entry without the "result" key.
NoResult == [orchestration_id |-> -1, plan_id |-> 0, execution_id |-> 0, review_id |-> 0]

\* Variant: the finished orchestration is removed from the dict.
SetCompleteDropsEntry(a, id, result) == [k \in DOMAIN a \ {id} |-> a[k]]

\* status = "complete" and result = orchestration_result, set together at
\* the end of orchestrate; the entry stays in the dict.
SetComplete(a, id, result) ==
    [a EXCEPT ![id].status = Status("complete", 0), ![id].result = result]

\* The except branch of orchestrate: status = "failed", error = str(e).
SetFailed(a, id) ==
    [a EXCEPT ![id].status = Status("failed", 0), ![id].error = "ValueError"]

\* What get_orchestration_status answers for an id that is not in the dict
\* (it then searches the orchestration history).
NotTracked ==
    [task |-> "none", status |-> Status("not_tracked", 0), result |-> NoResult,
     error |-> "none"]

\* CoordinatorAgent.get_orchestration_status(orchestration_id)
GetOrchestrationStatus(a, id) == IF id \in DOMAIN a THEN a[id] ELSE NotTracked

\* process_task(task) calls orchestrate(task); orchestrate logs, registers the
\* orchestration under an id made from the loop clock and enters stage 1.
StartOrchestrate(task, entry) ==
    /\ orch.phase = "idle"
    /\ LET m0 == IF entry = "process_task"
                 THEN Logs(memory, "Coordinator", <<"action", "info">>)
                 ELSE memory
           m1 == Logs(m0, "Coordinator", <<"action", "info", "thought", "info">>)
       IN /\ memory' = m1
          /\ orch' = [IdleOrch EXCEPT !.phase = "running", !.entry = entry,
                                      !.task = task, !.id = now,
                                      !.start = memory.next]
    /\ active' = (now :> [task |-> task, status |-> Status("running", 0),
                            result |-> NoResult, error |-> "none"]) @@ active
    /\ calls' = <<>>
    /\ sleeps' = <<>>
    /\ UNCHANGED <<max_retries, created, now, ndirect, par>>
    /\ UNCHANGED restVars

\* PlannerAgent.process_task called directly on the shared memory (as the
\* terminal UI and the demos do) before the orchestration starts.
PlannerDirect(task, emb) ==
    /\ orch.phase = "idle"
    /\ ndirect < MaxDirect
    /\ memory' = PlannerProcessTask(memory, task, FALSE, emb)
    /\ ndirect' = ndirect + 1
    /\ UNCHANGED <<max_retries, created, active, now, orch, calls, sleeps, par>>
    /\ UNCHANGED restVars

\* Tail of orchestrate after the last stage and, when entered through
\* process_task, the tail of process_task (_store_orchestration).
FinishOk(m, entry, task, plan_id) ==
    LET m1 == Logs(m, "Coordinator", <<"success", "info", "success">>)
    IN IF entry = "process_task"
       THEN Log(Store(Logs(m1, "Coordinator", <<"info", "success">>),
                      Item("episodic", "dict", "full_pipeline",
                           {"orchestration", "summary", "pipeline"},
                           "Coordinator", task, plan_id, ReportEmb)),
                "Coordinator", "info")
       ELSE m1

\* Variant: the except-branch persists a partial report.
FinishFailedStoresPartial(m, entry) ==
    Store(Log(m, "Coordinator", "error"),
          Item("episodic", "dict", "full_pipeline",
               {"orchestration", "summary", "pipeline"}, "Coordinator", "none", 0, ReportEmb))

\* except-branch of orchestrate and, when entered through process_task, of
\* process_task (handle_error, then re-raise).
FinishFailed(m, entry) ==
    LET m1 == Log(m, "Coordinator", "error")
    IN IF entry = "process_task" THEN HandleError(m1, "Coordinator") ELSE m1

\* Variant: range(self.max_retries), one iteration short.
HasNextAttemptShort(attempt) == attempt + 1 <= max_retries - 1

\* for attempt in range(self.max_retries + 1): is there a next iteration?
HasNextAttempt(attempt) == attempt + 1 <= max_retries

\* if attempt < self.max_retries: sleep before the next attempt
SleepsAfter(attempt) == attempt < max_retries

\* Variant: the delay grows by one second per attempt.
BackoffLinear(attempt) == attempt + 1

\* await self.sleep(2 ** attempt)
Backoff(attempt) == Pow2(attempt)

\* Variant: the plan id returned by the planning stage is not kept.
AdvanceDropsPlanId(o, name, id) ==
    CASE name = "planning" -> [o EXCEPT !.stage = 2, !.attempt = 0]
      [] name = "building" -> [o EXCEPT !.execution_id = id, !.stage = 3, !.attempt = 0]
      [] OTHER -> [o EXCEPT !.review_id = id, !.phase = "returned"]

\* Variant: planning hands over directly to reviewing.
AdvanceSkipsBuilding(o, name, id) ==
    CASE name = "planning" -> [o EXCEPT !.plan_id = id, !.stage = 3, !.attempt = 0]
      [] name = "building" -> [o EXCEPT !.execution_id = id, !.stage = 3, !.attempt = 0]
      [] OTHER -> [o EXCEPT !.review_id = id, !.phase = "returned"]

\* orchestrate after a stage returned id: keep the id, enter the next stage.
Advance(o, name, id) ==
    CASE name = "planning" -> [o EXCEPT !.plan_id = id, !.stage = 2, !.attempt = 0]
      [] name = "building" -> [o EXCEPT !.execution_id = id, !.stage = 3, !.attempt = 0]
      [] OTHER -> [o EXCEPT !.review_id = id, !.phase = "returned"]

\* One iteration of the for-loop of _execute_with_retry around stage_func,
\* given the outcome r = [mem, cr, raised, id] of stage_func on the logged
\* memory, followed by what orchestrate (and process_task) do until the next
\* attempt starts or the call ends.
AfterAttempt(r) ==
    LET name == Stages[orch.stage]
        ok == r.id # 0
        m1 == Log(r.mem, "Coordinator", IF ok THEN "success" ELSE "warning")
        m2 == Log(m1, "Coordinator", IF SleepsAfter(orch.attempt) THEN "thought" ELSE "error")
        last_error == [stage |-> name, attempt |-> orch.attempt]
    IN /\ created' = r.cr
       /\ calls' = Append(calls, [stage |-> name, attempt |-> orch.attempt,
                                  raised |-> r.raised, ok |-> ok, id |-> r.id])
       /\ sleeps' = IF ~ok /\ SleepsAfter(orch.attempt)
                    THEN Append(sleeps, [stage |-> name, attempt |-> orch.attempt,
                                         secs |-> Backoff(orch.attempt)])
                    ELSE sleeps
       /\ now' = IF ~ok /\ SleepsAfter(orch.attempt) THEN now + Backoff(orch.attempt) ELSE now
       /\ IF ok
          THEN /\ orch' = [Advance(orch, name, r.id) EXCEPT !.last_error = NoError]
               /\ IF orch'.phase = "returned"
                  THEN /\ memory' = FinishOk(m1, orch.entry, orch.task, orch.plan_id)
                       /\ active' = SetComplete(active, orch.id,
                                                [orchestration_id |-> orch.id,
                                                 plan_id |-> orch.plan_id,
                                                 execution_id |-> orch.execution_id,
                                                 review_id |-> r.id])
                  ELSE /\ memory' = Logs(m1, "Coordinator", <<"success", "thought", "info">>)
                       /\ active' = SetStatus(active, orch.id,
                                              Status(name \o "_attempt", orch.attempt + 1))
          ELSE IF HasNextAttempt(orch.attempt)
               THEN /\ memory' = m2
                    /\ orch' = [orch EXCEPT !.attempt = orch.attempt + 1,
                                             !.last_error = last_error]
                    /\ active' = SetStatus(active, orch.id,
                                           Status(name \o "_attempt", orch.attempt + 1))
               ELSE /\ memory' = FinishFailed(m2, orch.entry)
                    /\ orch' = [orch EXCEPT !.phase = "raised", !.last_error = last_error,
                                             !.raised = last_error]
                    /\ active' = SetFailed(active, orch.id)
       /\ UNCHANGED <<max_retries, ndirect, par>>
       /\ UNCHANGED restVars

AttemptLog == Log(memory, "Coordinator", "thought")

PlanningAttempt ==
    /\ orch.phase = "running" /\ Stages[orch.stage] = "planning"
    /\ \E fails \in BOOLEAN, emb \in DrawnEmb :
         AfterAttempt(RunPlannerStage(AttemptLog, created, orch.task, fails, emb))

BuildingAttempt ==
    /\ orch.phase = "running" /\ Stages[orch.stage] = "building"
    /\ \E fails \in BOOLEAN, emb \in DrawnEmb :
         AfterAttempt(RunBuilderStage(AttemptLog, created, orch.task, orch.plan_id, fails, emb))

ReviewingAttempt ==
    /\ orch.phase = "running" /\ Stages[orch.stage] = "reviewing"
    /\ \E fails \in BOOLEAN, emb \in DrawnEmb :
         AfterAttempt(RunReviewerStage(AttemptLog, created, orch.plan_id, orch.execution_id,
                                       fails, emb))

(***************************************************************************)
(* History queries of the agents                                           *)
(***************************************************************************)
MaxHistLimit == 2         \* limit of a history query: 1..MaxHistLimit

NoHist == [query |-> "none", limit |-> 0, ids |-> <<>>]

\* MemoryManager.retrieve with a memory_type filter, a limit and no text: the
\* first records of that type in the order of _store.
RetrieveKind(m, kind, limit) ==
    Truncate(SelectSeq(m.items, LAMBDA r : r.kind = kind), limit)

\* filtered_results.sort(key=created_at, reverse=True), as a sequence of ids
RECURSIVE NewestFirst(_)
NewestFirst(rs) ==
    IF rs = {} THEN <<>>
    ELSE LET r == CHOOSE x \in rs : \A q \in rs : q.created_at <= x.created_at
         IN <<r.id>> \o NewestFirst(rs \ {r})

\* PlannerAgent.get_recent_plans(limit)
RecentPlans(m, limit) ==
    Truncate(NewestFirst({r \in SeqToSet(Retrieve(m, "plan", "working", limit * 3)) :
                            r.agent = "Planner" /\ r.ptype = "task_decomposition"}),
             limit)

\* BuilderAgent.get_execution_history(limit)
ExecutionHistory(m, limit) ==
    Truncate(NewestFirst({r \in SeqToSet(RetrieveKind(m, "working", limit * 2)) :
                            r.agent = "Builder" /\ "execution" \in r.tags}),
             limit)

\* ReviewerAgent.get_review_history(limit)
ReviewHistory(m, limit) ==
    Truncate(NewestFirst({r \in SeqToSet(RetrieveKind(m, "episodic", limit * 2)) :
                            r.agent = "Reviewer" /\ r.ptype = "execution_review"}),
             limit)

\* CoordinatorAgent.get_orchestration_history(limit)["orchestrations"]
OrchestrationHistory(m, limit) ==
    Truncate(NewestFirst({r \in SeqToSet(Retrieve(m, "orchestration_type:full_pipeline",
                                                  "episodic", limit)) :
                            r.agent = "Coordinator"}),
             limit)

HistoryOf(query, m, limit) ==
    CASE query = "plans" -> RecentPlans(m, limit)
      [] query = "executions" -> ExecutionHistory(m, limit)
      [] query = "reviews" -> ReviewHistory(m, limit)
      [] OTHER -> OrchestrationHistory(m, limit)

\* One of the four history queries is awaited while no stage attempt runs.
GetHistory(query, limit) ==
    /\ hist' = [query |-> query, limit |-> limit, ids |-> HistoryOf(query, memory, limit)]
    /\ UNCHANGED <<memory, max_retries, created, active, now, orch, calls, sleeps, ndirect,
                   par, bld, mm, mop, extVars>>

(***************************************************************************)
(* ReviewerAgent used on its own: review_execution and process_task        *)
(***************************************************************************)
MaxPlanned == 1           \* subtasks of the plan under review: 0..MaxPlanned
MaxResults == 2           \* entries of execution_results: 0..MaxResults
MaxReviewRuns == 2        \* Scoring runs on one store

\* ReviewerAgent before any Scoring run. accuracy is the quotient num/den.
IdleRev ==
    [phase |-> "idle", entry |-> "none", planned |-> 0, flags |-> <<>>,
     plan_id |-> 0, raised |-> FALSE, accuracy |-> [num |-> 0, den |-> 1],
     before |-> 0, runs |-> 0]

\* ReviewerAgent._calculate_accuracy: the results whose "success" is true,
\* counted over the whole list, divided by the number of planned subtasks.
CalculateAccuracy(planned, flags) ==
    IF planned = 0 THEN [num |-> 0, den |-> 1]
    ELSE [num |-> Cardinality({k \in 1..Len(flags) : flags[k]}), den |-> planned]

\* The caller stores a plan of `planned` subtasks and an execution payload
\* whose results carry the success flags `flags`.
GiveExecution(planned, flags) ==
    /\ rev.phase # "given"
    /\ rev.runs < MaxReviewRuns
    /\ LET m1 == Store(memory, Item("working", "dict", "task_decomposition", {"plan"},
                                    "Planner", "t1", 0, 0))
           m2 == Store(m1, Item("working", "dict", "none", {"execution"},
                                "Builder", "t1", m1.next - 1, 0))
       IN /\ memory' = m2
          /\ rev' = [rev EXCEPT !.phase = "given", !.planned = planned, !.flags = flags,
                                !.plan_id = m1.next - 1]
    /\ UNCHANGED <<max_retries, created, active, now, orch, calls, sleeps, ndirect,
                   par, bld, mm, mop, hist, ag, bus, opt>>

\* One Scoring run, by review_execution(plan_id, builder_id) or by
\* process_task(task, {plan_id, execution_id}): the log lines, the scores and,
\* in process_task only, _store_review. A plan without subtasks raises
\* ValueError, which handle_error records before it is re-raised.
Scoring(entry, emb) ==
    /\ rev.phase = "given"
    /\ LET lookup == IF entry = "process_task"
                     THEN <<"action", "info", "info", "info", "thought", "info">>
                     ELSE <<"action", "info", "thought", "info">>
           scores == <<"info", "thought", "thought", "info", "result">>
           m1 == Logs(memory, "Reviewer", lookup)
           m2 == Logs(m1, "Reviewer", scores)
           m3 == Store(m2, Item("episodic", "dict", "execution_review",
                                {"review", "evaluation", "quality_assessment"},
                                "Reviewer", "none", rev.plan_id, emb))
           stored == {r \in SeqToSet(memory.items) : r.ptype = "execution_review"}
       IN /\ memory' = IF rev.planned = 0 THEN HandleError(m1, "Reviewer")
                       ELSE IF entry = "process_task"
                            THEN Logs(m3, "Reviewer", <<"info", "info">>)
                            ELSE m2
          /\ rev' = [rev EXCEPT !.phase = "done", !.entry = entry,
                                !.raised = (rev.planned = 0),
                                !.accuracy = CalculateAccuracy(rev.planned, rev.flags),
                                !.before = Cardinality(stored),
                                !.runs = rev.runs + 1]
    /\ hist' = NoHist        \* no history query made since this run
    /\ UNCHANGED <<max_retries, created, active, now, orch, calls, sleeps, ndirect,
                   par, bld, mm, mop, ag, bus, opt>>

(***************************************************************************)
(* BaseAgent lifecycle and error handling; CoordinatorAgent lifecycle      *)
(***************************************************************************)
MaxAgentCalls == 3        \* lifecycle and process_task calls made in one run

AgentNames == {"Coordinator", "Planner", "Builder", "Reviewer"}

\* The attribute of the Coordinator that holds a sub-agent.
KeyOf(agent) ==
    CASE agent = "Planner" -> "planner"
      [] agent = "Builder" -> "builder"
      [] OTHER -> "reviewer"

\* BaseAgent.__init__: _active = False. last[a] is the last lifecycle request
\* that reached agent a, target/op the last call made, error the exception
\* its body raised and raised the exception its caller saw.
IdleAg ==
    [active |-> [a \in AgentNames |-> FALSE], last |-> [a \in AgentNames |-> "none"],
     target |-> "none", op |-> "none", ncalls |-> 0, error |-> "none", raised |-> "none"]

\* Variant: initialize flips the flag.
InitializeFlagToggles(flag) == ~flag

\* BaseAgent.initialize: self._active = True
InitializeFlag(flag) == TRUE

\* BaseAgent.shutdown: self._active = False
ShutdownFlag(flag) == FALSE

\* The call made on `target` is noted; error fields are those of process_task.
Called(st, target, op) ==
    [st EXCEPT !.target = target, !.op = op, !.ncalls = st.ncalls + 1,
               !.error = "none", !.raised = "none"]

\* The first use of a sub-agent in a stage function: it is created on the
\* shared store and initialized.
CreateSubAgent(agent) ==
    /\ ag.ncalls < MaxAgentCalls
    /\ KeyOf(agent) \notin created
    /\ created' = created \cup {KeyOf(agent)}
    /\ memory' = EnsureAgent(memory, created, KeyOf(agent), agent)
    /\ ag' = [Called(ag, agent, "initialize") EXCEPT
                !.active[agent] = InitializeFlag(ag.active[agent]),
                !.last[agent] = "initialize"]
    /\ UNCHANGED <<max_retries, active, now, orch, calls, sleeps, ndirect,
                   par, bld, mm, mop, hist, rev, bus, opt>>

\* initialize() or shutdown() called on a sub-agent itself.
SubAgentLifecycle(agent, op) ==
    /\ ag.ncalls < MaxAgentCalls
    /\ KeyOf(agent) \in created
    /\ memory' = Log(memory, agent, IF op = "initialize" THEN "success" ELSE "info")
    /\ ag' = [Called(ag, agent, op) EXCEPT
                !.active[agent] = IF op = "initialize" THEN InitializeFlag(ag.active[agent])
                                  ELSE ShutdownFlag(ag.active[agent]),
                !.last[agent] = op]
    /\ UNCHANGED <<max_retries, created, active, now, orch, calls, sleeps, ndirect,
                   par, bld, mm, mop, hist, rev, bus, opt>>

\* The sub-agents a Coordinator call passes the request on to, in the order
\* planner, builder, reviewer: those that exist and are not yet in that state.
PassedOn(st, op) ==
    SelectSeq(<<"Planner", "Builder", "Reviewer">>,
              LAMBDA a : KeyOf(a) \in created /\ st.active[a] = (op = "shutdown"))

RECURSIVE LogEach(_, _, _)
LogEach(m, agents, style) ==
    IF agents = <<>> THEN m
    ELSE LogEach(Log(m, Head(agents), style), Tail(agents), style)

\* CoordinatorAgent.initialize: super().initialize(), then every sub-agent
\* that exists and is not active, then one log line.
CoordinatorInitialize ==
    /\ ag.ncalls < MaxAgentCalls
    /\ LET subs == PassedOn(ag, "initialize")
           m1 == Log(memory, "Coordinator", "success")
       IN /\ memory' = Log(LogEach(m1, subs, "success"), "Coordinator", "success")
          /\ ag' = [Called(ag, "Coordinator", "initialize") EXCEPT
                      !.active = [a \in AgentNames |->
                                    IF a = "Coordinator" \/ a \in SeqToSet(subs)
                                    THEN InitializeFlag(ag.active[a]) ELSE ag.active[a]],
                      !.last = [a \in AgentNames |->
                                  IF a = "Coordinator" \/ KeyOf(a) \in created
                                  THEN "initialize" ELSE ag.last[a]]]
    /\ UNCHANGED <<max_retries, created, active, now, orch, calls, sleeps, ndirect,
                   par, bld, mm, mop, hist, rev, bus, opt>>

\* CoordinatorAgent.shutdown: every sub-agent that exists and is active, then
\* super().shutdown(), then one log line.
CoordinatorShutdown ==
    /\ ag.ncalls < MaxAgentCalls
    /\ LET subs == PassedOn(ag, "shutdown")
           m1 == LogEach(memory, subs, "info")
       IN /\ memory' = Logs(m1, "Coordinator", <<"info", "info">>)
          /\ ag' = [Called(ag, "Coordinator", "shutdown") EXCEPT
                      !.active = [a \in AgentNames |->
                                    IF a = "Coordinator" \/ a \in SeqToSet(subs)
                                    THEN ShutdownFlag(ag.active[a]) ELSE ag.active[a]],
                      !.last = [a \in AgentNames |->
                                  IF a = "Coordinator" \/ KeyOf(a) \in created
                                  THEN "shutdown" ELSE ag.last[a]]]
    /\ UNCHANGED <<max_retries, created, active, now, orch, calls, sleeps, ndirect,
                   par, bld, mm, mop, hist, rev, bus, opt>>

\* CoordinatorAgent.is_active / BaseAgent.is_active
IsActive(st, agent) ==
    IF agent = "Coordinator"
    THEN st.active["Coordinator"]
         /\ \A a \in AgentNames \ {"Coordinator"} : KeyOf(a) \in created => st.active[a]
    ELSE st.active[agent]

\* How the store answers while handle_error runs.
StoreModes == {"healthy", "rejects_record", "down"}

\* process_task of an agent whose body raises the error `error`; the except
\* branch awaits handle_error (a log line, then the error record, both through
\* memory.store) and then re-raises with a bare raise. An exception raised
\* inside handle_error leaves the except branch before the raise.
FailingProcessTask(agent, error, store) ==
    /\ ag.ncalls < MaxAgentCalls
    /\ agent = "Coordinator" \/ KeyOf(agent) \in created
    /\ memory' = CASE store = "healthy" -> HandleError(memory, agent)
                   [] store = "rejects_record" -> Log(memory, agent, "error")
                   [] OTHER -> memory
    /\ ag' = [Called(ag, agent, "process_task") EXCEPT
                !.error = error,
                !.raised = IF store = "healthy" THEN error ELSE "StoreError"]
    /\ UNCHANGED <<max_retries, created, active, now, orch, calls, sleeps, ndirect,
                   par, bld, mm, mop, hist, rev, bus, opt>>

(***************************************************************************)
(* EventBus                                                                *)
(***************************************************************************)
MaxCallbacks == 2         \* distinct callbacks that subscribe

Topics == {"chat", "progress"}
Callbacks == 1..MaxCallbacks

\* EventBus.__init__: no subscribers. pub is the publish in progress or last
\* finished: the copied subscriber list, the callbacks invoked so far with
\* their outcome, and whether an exception reached the publisher. resub tells
\* that some subscribe call found its callback already in the list.
NoPublish ==
    [topic |-> "none", copy |-> <<>>, called |-> <<>>, escaped |-> FALSE, done |-> TRUE]

IdleBus == [subs |-> [t \in Topics |-> <<>>], pub |-> NoPublish, resub |-> FALSE]

\* Variant: subscribe appends without looking.
AddSubscriberAlways(list, cb) == Append(list, cb)

\* if callback not in self._subscribers[topic]: append
AddSubscriber(list, cb) ==
    IF cb \in SeqToSet(list) THEN list ELSE Append(list, cb)

\* EventBus.subscribe(topic, callback)
Subscribe(topic, cb) ==
    /\ bus' = [bus EXCEPT !.subs[topic] = AddSubscriber(bus.subs[topic], cb),
                          !.resub = bus.resub \/ cb \in SeqToSet(bus.subs[topic])]
    /\ UNCHANGED <<memory, max_retries, created, active, now, orch, calls, sleeps, ndirect,
                   par, bld, mm, mop, hist, rev, ag, opt>>

\* EventBus.unsubscribe(topic, callback): list.remove drops the first match.
Unsubscribe(topic, cb) ==
    /\ cb \in SeqToSet(bus.subs[topic])
    /\ LET list == bus.subs[topic]
           k == CHOOSE i \in 1..Len(list) :
                   list[i] = cb /\ \A j \in 1..(i - 1) : list[j] # cb
       IN bus' = [bus EXCEPT !.subs[topic] = SubSeq(list, 1, k - 1)
                                              \o SubSeq(list, k + 1, Len(list))]
    /\ UNCHANGED <<memory, max_retries, created, active, now, orch, calls, sleeps, ndirect,
                   par, bld, mm, mop, hist, rev, ag, opt>>

\* EventBus.publish up to the loop: the subscriber list is copied under the lock.
PublishStart(topic) ==
    /\ bus.pub.done
    /\ bus' = [bus EXCEPT !.pub = [topic |-> topic, copy |-> bus.subs[topic],
                                   called |-> <<>>, escaped |-> FALSE,
                                   done |-> bus.subs[topic] = <<>>]]
    /\ UNCHANGED <<memory, max_retries, created, active, now, orch, calls, sleeps, ndirect,
                   par, bld, mm, mop, hist, rev, ag, opt>>

\* except Exception: pass
Swallows(raises) == TRUE

\* One iteration of the loop of publish: the next callback of the copy is
\* called (awaited if it is a coroutine function) and returns or raises an
\* Exception; subscriptions may change between two iterations.
PublishCall(raises) ==
    /\ ~bus.pub.done
    /\ LET k == Len(bus.pub.called) + 1
           called == Append(bus.pub.called, [cb |-> bus.pub.copy[k], raised |-> raises])
           escapes == raises /\ ~Swallows(raises)
       IN bus' = [bus EXCEPT !.pub.called = called,
                             !.pub.escaped = escapes,
                             !.pub.done = escapes \/ k = Len(bus.pub.copy)]
    /\ UNCHANGED <<memory, max_retries, created, active, now, orch, calls, sleeps, ndirect,
                   par, bld, mm, mop, hist, rev, ag, opt>>


(***************************************************************************)
(* PlannerAgent.optimize_plan                                              *)
(*                                                                         *)
(* opt.items is the planner's store restricted to plan records.  A plan is *)
(* a dict of str keys holding strs, floats and a list of strs, so its JSON *)
(* text denotes it exactly; parsed tells whether a read has already put    *)
(* the dict in place of the text.                                          *)
(***************************************************************************)
MaxSteps == 2             \* subtasks of a plan made by process_task: 0..MaxSteps
MaxPlanRecords == 3       \* plan records in the store

PlannedSteps == {"design", "build", "review"}
Goals == {"speed", "quality", "cost", "reliability", "other"}

NoCall ==
    [op |-> "none", plan_id |-> 0, goal |-> "none", raised |-> FALSE,
     before |-> <<>>, plans |-> 0]

IdleOpt == [items |-> <<>>, last |-> NoCall]

\* "review" in step.lower()
MentionsReview(step) == step \in {"review", "quality review"}

\* optimized.extend([step for step in new_steps if step not in optimized])
ExtendNew(list, new) == list \o SelectSeq(new, LAMBDA x : x \notin SeqToSet(list))

\* list.insert(k, x) before the element at 1-based position k
InsertBefore(list, k, x) ==
    SubSeq(list, 1, k - 1) \o <<x>> \o SubSeq(list, k, Len(list))

\* list(dict.fromkeys(optimized)): first occurrences, in order
RECURSIVE Dedupe(_)
Dedupe(list) ==
    IF list = <<>> THEN <<>>
    ELSE LET front == Dedupe(SubSeq(list, 1, Len(list) - 1))
             x == list[Len(list)]
         IN IF x \in SeqToSet(front) THEN front ELSE Append(front, x)

\* PlannerAgent._apply_optimization, on a copy of the subtasks
ApplyOptimization(subtasks, goal) ==
    LET reviews == {k \in 1..Len(subtasks) : MentionsReview(subtasks[k])}
        first == CHOOSE k \in reviews : \A j \in reviews : k <= j
        optimized ==
          CASE goal = "speed" -> ExtendNew(subtasks, <<"parallel">>)
            [] goal = "quality" ->
                 IF Len(subtasks) > 1
                 THEN Append(InsertBefore(subtasks,
                                          IF reviews # {} THEN first ELSE Len(subtasks),
                                          "quality review"),
                             "final checks")
                 ELSE subtasks
            [] goal = "cost" -> ExtendNew(subtasks, <<"resources">>)
            [] goal = "reliability" -> ExtendNew(subtasks, <<"recovery", "monitoring">>)
            [] OTHER -> subtasks
    IN Dedupe(optimized)

\* Variant: the optimization works on the list of the original plan itself.
OriginalSubtasksAliased(subtasks, optimized) == optimized

\* The subtasks of the original plan after optimize_plan: _apply_optimization
\* starts with subtasks.copy() and optimize_plan assigns the result into
\* original_plan.copy(), so the dict held by the store keeps its list.
OriginalSubtasks(subtasks, optimized) == subtasks

\* process_task stores the plan it made: a dict, kept as its JSON text.
Decompose(subtasks) ==
    /\ opt.items = <<>>
    /\ opt' = [items |-> <<[id |-> 1, ptype |-> "task_decomposition", parsed |-> FALSE,
                            subtasks |-> subtasks, goal |-> "none", original |-> 0]>>,
               last |-> [NoCall EXCEPT !.op = "process_task", !.plan_id = 1]]
    /\ UNCHANGED <<memory, max_retries, created, active, now, orch, calls, sleeps, ndirect,
                   par, bld, mm, mop, hist, rev, ag, bus>>

\* memory.get(plan_id) by a caller: the text is parsed in place, the content
\* is returned.
ReadPlan(id) ==
    /\ id \in 1..Len(opt.items)
    /\ opt' = [opt EXCEPT !.items[id].parsed = TRUE,
                          !.last = [NoCall EXCEPT !.op = "get", !.plan_id = id,
                                                  !.before = opt.items[id].subtasks]]
    /\ UNCHANGED <<memory, max_retries, created, active, now, orch, calls, sleeps, ndirect,
                   par, bld, mm, mop, hist, rev, ag, bus>>

\* PlannerAgent.optimize_plan(plan_id, goal): memory.get, the checks, the
\* optimization, the new record; an unknown id raises ValueError.
OptimizePlan(id, goal) ==
    /\ Len(opt.items) < MaxPlanRecords
    /\ opt.items # <<>>
    /\ IF id \notin 1..Len(opt.items)
       THEN opt' = [opt EXCEPT !.last = [NoCall EXCEPT !.op = "optimize", !.plan_id = id,
                                                       !.goal = goal, !.raised = TRUE,
                                                       !.plans = Len(opt.items)]]
       ELSE LET subtasks == opt.items[id].subtasks
                optimized == ApplyOptimization(subtasks, goal)
                record == [id |-> Len(opt.items) + 1, ptype |-> "optimized_decomposition",
                           parsed |-> FALSE, subtasks |-> optimized, goal |-> goal,
                           original |-> id]
                read == [opt.items EXCEPT ![id].parsed = TRUE,
                                          ![id].subtasks = OriginalSubtasks(subtasks, optimized)]
            IN opt' = [items |-> Append(read, record),
                       last |-> [op |-> "optimize", plan_id |-> id, goal |-> goal,
                                 raised |-> FALSE, before |-> subtasks,
                                 plans |-> Len(opt.items)]]
    /\ UNCHANGED <<memory, max_retries, created, active, now, orch, calls, sleeps, ndirect,
                   par, bld, mm, mop, hist, rev, ag, bus>>


(***************************************************************************)
(* BuilderAgent._execute_parallel                                          *)
(***************************************************************************)
\* BuilderAgent before any process_task call.
IdleBld ==
    [phase |-> "idle", mode |-> "sequential", recovery |-> TRUE, fast |-> TRUE,
     has_plan |-> FALSE, n |-> 0, i |-> 0, step |-> "first", results |-> <<>>,
     attempts |-> <<>>, faults |-> 0, slept |-> 0, persisted |-> <<>>,
     used |-> "none", given |-> TRUE, plan_id |-> 0]

PlanIds == {1, 2}         \* ids of the plans a run can execute

\* context.get("plan_id", "unknown") where the context has no plan_id
Unknown == -1

\* plan_id = context.get("plan_id", "unknown") before the summary and the
\* record are made: the id found by _find_latest_plan is overwritten.
RecordedPlanId(b) == IF b.given THEN b.plan_id ELSE Unknown

\* A slot of the list returned by asyncio.gather: a result dict, or (exc) the
\* exception object of a wrapper that raised.
Slot(exc, index, success, error) ==
    [exc |-> exc, index |-> index, success |-> success, error |-> error]

Pending == Slot(FALSE, -1, FALSE, "pending")

IdlePar(cap) ==
    [phase |-> "idle", n |-> 0, cap |-> cap, permits |-> 0, pc |-> <<>>,
     outcome |-> <<>>, slots |-> <<>>, order |-> <<>>, returned |-> <<>>,
     persisted |-> <<>>, tries |-> <<>>]

\* process_task takes the parallel branch for more than one subtask:
\* _execute_parallel logs, creates Semaphore(max_concurrency) and one wrapper
\* coroutine per subtask, and awaits gather.
ParStart(n) ==
    /\ par.phase = "idle"
    /\ par' = [par EXCEPT !.phase = "gather", !.n = n, !.permits = par.cap,
                          !.pc = [i \in 1..n |-> "waiting"],
                          !.outcome = [i \in 1..n |-> "none"],
                          !.slots = [i \in 1..n |-> Pending],
                          !.tries = [i \in 1..n |-> 0]]
    /\ memory' = Log(memory, "Builder", "info")
    /\ UNCHANGED <<max_retries, created, active, now, orch, calls, sleeps, ndirect>>
    /\ UNCHANGED restVars

\* Variant: the wrapper runs the subtask without waiting for a permit.
CanAcquireAlways(p) == TRUE

\* asyncio.Semaphore.acquire proceeds only while the counter is positive.
CanAcquire(p) == p.permits > 0

\* async with semaphore: (entry)
ParAcquire(i) ==
    /\ par.phase = "gather"
    /\ par.pc[i] = "waiting"
    /\ CanAcquire(par)
    /\ par' = [par EXCEPT !.permits = par.permits - 1, !.pc[i] = "running",
                          !.tries[i] = par.tries[i] + 1]
    /\ UNCHANGED <<memory, max_retries, created, active, now, orch, calls, sleeps, ndirect>>
    /\ UNCHANGED restVars

\* Variant: gather(*tasks), the first exception propagates to the caller.
ReturnExceptionsOff == FALSE

\* gather(*tasks, return_exceptions=True)
ReturnExceptions == TRUE

\* Variant: results are collected in completion order (as_completed).
ResultSlotByCompletion(i, k) == k + 1

\* gather stores the outcome of the i-th awaitable at position i, whatever the
\* number k of awaitables that completed before it.
ResultSlot(i, k) == i

\* Variant: the wrapper makes a recovery attempt as _execute_sequential does.
ParRecoversAsSequential(b) == b.recovery

\* The except branch of execute_with_semaphore: it logs and returns the
\* failure dict; self.error_recovery is not read.
ParRecovers(b) == FALSE

\* Variant: the permit is given back only when the subtask succeeded.
ReleaseUnlessFailed(permits, outcome) == IF outcome = "ok" THEN permits + 1 ELSE permits

\* async with semaphore: (exit) gives the permit back however the block ended.
Release(permits, outcome) == permits + 1

\* A running wrapper finishes: _execute_subtask returned ("ok", its output is
\* stored), raised an Exception that the wrapper caught ("fail", logged), or
\* the wrapper itself raised ("fault"); the semaphore is released in all cases.
ParFinish(i, outcome) ==
    /\ par.phase = "gather"
    /\ par.pc[i] = "running"
    /\ LET k == Len(par.order)
           slot == CASE outcome = "ok" -> Slot(FALSE, i - 1, TRUE, "none")
                     [] outcome = "fail" -> Slot(FALSE, i - 1, FALSE, "error")
                     [] OTHER -> Slot(TRUE, -1, FALSE, "exception")
       IN IF outcome = "fail" /\ ParRecovers(bld) /\ par.tries[i] = 1
          THEN /\ par' = [par EXCEPT !.tries[i] = 2]
               /\ memory' = Log(memory, "Builder", "warning")
          ELSE /\ par' = [par EXCEPT !.permits = Release(par.permits, outcome),
                                     !.pc[i] = "done",
                                     !.outcome[i] = outcome,
                                     !.slots[ResultSlot(i, k)] = slot,
                                     !.order = Append(par.order, i),
                                     !.phase = IF outcome = "fault" /\ ~ReturnExceptions
                                               THEN "raised" ELSE "gather"]
               /\ memory' = CASE outcome = "ok" ->
                                   Store(memory, Item("working", "str", "none",
                                                      {"subtask_result", "execution"},
                                                      "Builder", "none", 0, SubtaskEmb(i - 1)))
                              [] outcome = "fail" -> Log(memory, "Builder", "error")
                              [] OTHER -> memory
    /\ UNCHANGED <<max_retries, created, active, now, orch, calls, sleeps, ndirect>>
    /\ UNCHANGED restVars

\* for i, result in enumerate(results): exception objects become failed results.
ProcessResults(slots) ==
    [i \in 1..Len(slots) |->
        IF slots[i].exc THEN Slot(FALSE, i - 1, FALSE, "exception") ELSE slots[i]]

RECURSIVE LogFaults(_, _, _)
LogFaults(m, slots, i) ==
    IF i > Len(slots) THEN m
    ELSE LogFaults(IF slots[i].exc THEN Log(m, "Builder", "error") ELSE m, slots, i + 1)

\* gather returns once every wrapper is done; _execute_parallel returns the
\* processed list and process_task persists it in the execution record.
ParReturn ==
    /\ par.phase = "gather"
    /\ \A i \in 1..par.n : par.pc[i] = "done"
    /\ LET processed == ProcessResults(par.slots)
           m1 == Logs(LogFaults(memory, par.slots, 1), "Builder", <<"info", "info", "success">>)
           m2 == Store(m1, Item("working", "dict", "none",
                                {"execution", "build", "complete", "result", "Builder"},
                                "Builder", "t1", RecordedPlanId(bld), 0))
       IN /\ par' = [par EXCEPT !.phase = "returned", !.returned = processed,
                                !.persisted = processed]
          /\ memory' = Log(m2, "Builder", "info")
    /\ UNCHANGED <<max_retries, created, active, now, orch, calls, sleeps, ndirect>>
    /\ UNCHANGED restVars

InitPar ==
    /\ memory = EmptyMemory
    /\ max_retries = 0
    /\ created = {}
    /\ active = <<>>
    /\ now = 0
    /\ orch = IdleOrch
    /\ calls = <<>>
    /\ sleeps = <<>>
    /\ ndirect = 0
    /\ par \in {IdlePar(cap) : cap \in 1..MaxConcurrencyBound}
    /\ bld = IdleBld
    /\ mm = EmptyMM
    /\ mop = NoOp
    /\ hist = NoHist
    /\ rev = IdleRev
    /\ ag = IdleAg
    /\ bus = IdleBus
    /\ opt = IdleOpt

NextPar ==
    \/ \E n \in 2..MaxParSubtasks : ParStart(n)
    \/ \E i \in 1..par.n : ParAcquire(i)
    \/ \E i \in 1..par.n, outcome \in {"ok", "fail", "fault"} : ParFinish(i, outcome)
    \/ ParReturn

SpecPar == InitPar /\ [][NextPar]_vars

MaxLiveSubtasks == 2      \* subtasks of a run checked for termination: 0..MaxLiveSubtasks

\* _execute_parallel called with any subtask list, the empty one and a
\* single subtask included.
NextParAny ==
    \/ \E n \in 0..MaxLiveSubtasks : ParStart(n)
    \/ \E i \in 1..par.n : ParAcquire(i)
    \/ \E i \in 1..par.n, outcome \in {"ok", "fail", "fault"} : ParFinish(i, outcome)
    \/ ParReturn

\* The event loop runs every ready coroutine: a released permit wakes a
\* waiting wrapper, a running subtask (a bounded simulated wait) ends, and
\* gather returns once all wrappers are done.
SpecParLive ==
    /\ InitPar
    /\ [][NextParAny]_vars
    /\ WF_vars(\E i \in 1..par.n : ParAcquire(i))
    /\ WF_vars(\E i \in 1..par.n, outcome \in {"ok", "fail", "fault"} : ParFinish(i, outcome))
    /\ WF_vars(ParReturn)

InitOrch ==
    /\ memory = EmptyMemory
    /\ max_retries \in 0..MaxRetriesBound
    /\ created = {}
    /\ active = <<>>
    /\ now = 0
    /\ orch = IdleOrch
    /\ calls = <<>>
    /\ sleeps = <<>>
    /\ ndirect = 0
    /\ par = IdlePar(3)
    /\ bld = IdleBld
    /\ mm = EmptyMM
    /\ mop = NoOp
    /\ hist = NoHist
    /\ rev = IdleRev
    /\ ag = IdleAg
    /\ bus = IdleBus
    /\ opt = IdleOpt

NextOrch ==
    \/ \E task \in Tasks, entry \in {"orchestrate", "process_task"} :
         StartOrchestrate(task, entry)
    \/ PlanningAttempt
    \/ BuildingAttempt
    \/ ReviewingAttempt
    \/ \E task \in Tasks, emb \in DrawnEmb : PlannerDirect(task, emb)

SpecOrch == InitOrch /\ [][NextOrch]_vars

InitHist ==
    /\ InitOrch
    /\ max_retries = 0

\* Orchestrations and direct planner runs fill the store the history queries read.
NextHist ==
    \/ \E task \in Tasks, entry \in {"orchestrate", "process_task"} :
         StartOrchestrate(task, entry)
    \/ PlanningAttempt
    \/ BuildingAttempt
    \/ ReviewingAttempt
    \/ \E task \in Tasks, emb \in DrawnEmb : PlannerDirect(task, emb)
    \/ \E query \in {"plans", "executions", "reviews", "orchestrations"},
          limit \in 1..MaxHistLimit : GetHistory(query, limit)

SpecHist == InitHist /\ [][NextHist]_vars

MaxBackoffRetries == 3    \* max_retries of the Coordinator: 0..MaxBackoffRetries

\* One orchestration on a Coordinator configured with up to MaxBackoffRetries
\* retries per stage.
InitBackoff ==
    /\ memory = EmptyMemory
    /\ max_retries \in 0..MaxBackoffRetries
    /\ created = {}
    /\ active = <<>>
    /\ now = 0
    /\ orch = IdleOrch
    /\ calls = <<>>
    /\ sleeps = <<>>
    /\ ndirect = 0
    /\ par = IdlePar(3)
    /\ bld = IdleBld
    /\ mm = EmptyMM
    /\ mop = NoOp
    /\ hist = NoHist
    /\ rev = IdleRev
    /\ ag = IdleAg
    /\ bus = IdleBus
    /\ opt = IdleOpt

NextBackoff ==
    \/ StartOrchestrate("t1", "process_task")
    \/ PlanningAttempt
    \/ BuildingAttempt
    \/ ReviewingAttempt

SpecBackoff == InitBackoff /\ [][NextBackoff]_vars

MaxOrchestrations == 2    \* orchestrate() calls made on one Coordinator

\* orchestrate has returned or raised and its caller calls again later: the
\* loop clock, from which the next orchestration id is made, has moved on.
CallAgain ==
    /\ orch.phase \in {"returned", "raised"}
    /\ Cardinality(DOMAIN active) < MaxOrchestrations
    /\ orch' = [orch EXCEPT !.phase = "idle"]
    /\ now' = now + 1
    /\ UNCHANGED <<memory, max_retries, created, active, calls, sleeps, ndirect, par>>
    /\ UNCHANGED restVars

\* Orchestrations that follow each other on one Coordinator.
NextStatus ==
    \/ \E task \in Tasks, entry \in {"orchestrate", "process_task"} :
         StartOrchestrate(task, entry)
    \/ PlanningAttempt
    \/ BuildingAttempt
    \/ ReviewingAttempt
    \/ CallAgain

SpecStatus == InitHist /\ [][NextStatus]_vars

\* The task running orchestrate is cancelled while the Builder's subtasks
\* sleep: CancelledError is raised at the await and, not being an Exception,
\* passes the except clauses of process_task, _execute_with_retry and
\* orchestrate.  The attempt had logged and set its status, the Builder had
\* logged up to the start of its subtasks; nothing is written afterwards.
CancelInBuilder ==
    /\ orch.phase = "running" /\ Stages[orch.stage] = "building"
    /\ IsDictRecord(memory, orch.plan_id)
    /\ memory' = Logs(EnsureAgent(AttemptLog, created, "builder", "Builder"), "Builder",
                      <<"action", "info", "info", "info", "info", "info", "info">>)
    /\ created' = created \cup {"builder"}
    /\ active' = SetStatus(active, orch.id, Status("building_attempt", orch.attempt + 1))
    /\ orch' = [orch EXCEPT !.phase = "cancelled"]
    /\ UNCHANGED <<max_retries, now, calls, sleeps, ndirect, par>>
    /\ UNCHANGED restVars

\* The task is cancelled during the backoff sleep that follows a failed
\* attempt: the status stays that of the failed attempt.
CancelInBackoff ==
    /\ orch.phase = "running"
    /\ orch.last_error # NoError
    /\ orch' = [orch EXCEPT !.phase = "cancelled"]
    /\ UNCHANGED <<memory, max_retries, created, active, now, calls, sleeps, ndirect, par>>
    /\ UNCHANGED restVars

\* One orchestration that returns, raises or is cancelled.
NextCancel ==
    \/ \E task \in Tasks, entry \in {"orchestrate", "process_task"} :
         StartOrchestrate(task, entry)
    \/ PlanningAttempt
    \/ BuildingAttempt
    \/ ReviewingAttempt
    \/ CancelInBuilder
    \/ CancelInBackoff

SpecCancel == InitOrch /\ [][NextCancel]_vars

\* loop.time() is time.monotonic(): it never goes back, and two reads that
\* fall into one tick of the clock return the same value.
ClockTicks == {0, 1}

MaxStored == 40           \* a further orchestrate() call is made while the store holds
                          \* at most MaxStored records

\* orchestrate has returned or raised and its caller calls again; the loop
\* clock has advanced by ticks since the id of the last orchestration was made.
CallAgainAfter(ticks) ==
    /\ orch.phase \in {"returned", "raised"}
    /\ Cardinality(DOMAIN active) < MaxOrchestrations
    /\ Len(memory.items) <= MaxStored
    /\ orch' = [orch EXCEPT !.phase = "idle"]
    /\ now' = now + ticks
    /\ UNCHANGED <<memory, max_retries, created, active, calls, sleeps, ndirect, par>>
    /\ UNCHANGED restVars

\* While the orchestration is suspended in its building stage another task
\* calls orchestrate(task) on the same Coordinator.  Its planning stage raises
\* and, with max_retries = 0, the call runs without suspending from the
\* registration of its id to the re-raise in the except branch.
ConcurrentCall(task, ticks) ==
    /\ orch.phase = "running" /\ Stages[orch.stage] = "building"
    /\ max_retries = 0
    /\ Cardinality(DOMAIN active) < MaxOrchestrations
    /\ Len(memory.items) <= MaxStored
    /\ LET id == now + ticks
           m0 == Logs(memory, "Coordinator", <<"action", "info", "thought", "info">>)
           r == RunPlannerStage(Log(m0, "Coordinator", "thought"), created, task, TRUE, 0)
           m1 == Logs(r.mem, "Coordinator", <<"warning", "error">>)
           entry == [task |-> task, status |-> Status("running", 0),
                     result |-> NoResult, error |-> "none"]
       IN /\ now' = id
          /\ memory' = FinishFailed(m1, "orchestrate")
          /\ created' = r.cr
          /\ active' = SetFailed(SetStatus((id :> entry) @@ active, id,
                                           Status("planning_attempt", 1)), id)
    /\ UNCHANGED <<max_retries, orch, calls, sleeps, ndirect, par>>
    /\ UNCHANGED restVars

\* Orchestrations that follow each other or overlap on one Coordinator.
NextIds ==
    \/ \E task \in Tasks, entry \in {"orchestrate", "process_task"} :
         StartOrchestrate(task, entry)
    \/ PlanningAttempt
    \/ BuildingAttempt
    \/ ReviewingAttempt
    \/ \E ticks \in ClockTicks : CallAgainAfter(ticks)
    \/ \E task \in Tasks, ticks \in ClockTicks : ConcurrentCall(task, ticks)

SpecIds == InitHist /\ [][NextIds]_vars

\* A ReviewerAgent of its own after initialize(), which logs one line.
InitReview ==
    /\ memory = Log(EmptyMemory, "Reviewer", "success")
    /\ max_retries = 0
    /\ created = {}
    /\ active = <<>>
    /\ now = 0
    /\ orch = IdleOrch
    /\ calls = <<>>
    /\ sleeps = <<>>
    /\ ndirect = 0
    /\ par = IdlePar(1)
    /\ bld = IdleBld
    /\ mm = EmptyMM
    /\ mop = NoOp
    /\ hist = NoHist
    /\ rev = IdleRev
    /\ ag = IdleAg
    /\ bus = IdleBus
    /\ opt = IdleOpt

\* Plans and execution payloads are reviewed one after the other through
\* either entry point; get_review_history is asked between the runs.
NextReview ==
    \/ \E planned \in 0..MaxPlanned, n \in 0..MaxResults :
         \E flags \in [1..n -> BOOLEAN] : GiveExecution(planned, flags)
    \/ \E entry \in {"review_execution", "process_task"}, emb \in DrawnEmb :
         Scoring(entry, emb)
    \/ \E limit \in 1..MaxHistLimit : GetHistory("reviews", limit)

SpecReview == InitReview /\ [][NextReview]_vars

\* A Coordinator and the sub-agents it creates receive lifecycle calls and
\* failing process_task calls in any order.
NextAgent ==
    \/ \E agent \in AgentNames \ {"Coordinator"} : CreateSubAgent(agent)
    \/ \E agent \in AgentNames \ {"Coordinator"}, op \in {"initialize", "shutdown"} :
         SubAgentLifecycle(agent, op)
    \/ CoordinatorInitialize
    \/ CoordinatorShutdown
    \/ \E agent \in AgentNames, error \in {"ValueError", "KeyError"}, store \in StoreModes :
         FailingProcessTask(agent, error, store)

SpecAgent == InitHist /\ [][NextAgent]_vars

\* Callbacks subscribe and unsubscribe while events are published.
NextBus ==
    \/ \E topic \in Topics, cb \in Callbacks : Subscribe(topic, cb)
    \/ \E topic \in Topics, cb \in Callbacks : Unsubscribe(topic, cb)
    \/ \E topic \in Topics : PublishStart(topic)
    \/ \E raises \in BOOLEAN : PublishCall(raises)

SpecBus == InitHist /\ [][NextBus]_vars

\* One plan is made, then read and optimized, the optimized plans included.
NextOpt ==
    \/ \E n \in 0..MaxSteps : \E subtasks \in [1..n -> PlannedSteps] : Decompose(subtasks)
    \/ \E id \in 1..MaxPlanRecords : ReadPlan(id)
    \/ \E id \in 1..MaxPlanRecords, goal \in Goals : OptimizePlan(id, goal)

SpecOpt == InitHist /\ [][NextOpt]_vars

(***************************************************************************)
(* BuilderAgent.process_task and _execute_sequential                       *)
(***************************************************************************)
MaxSeqSubtasks == 2       \* subtasks given to one process_task run: 0..MaxSeqSubtasks

coordVars == <<max_retries, created, active, now, orch, calls, sleeps, ndirect>>

\* Variant: the result dict carries the 1-based step number.
SubtaskResultOneBased(i) == Slot(FALSE, i + 1, TRUE, "none")

\* _execute_subtask(subtask, context, index) returned: its result dict.
SubtaskResult(i) == Slot(FALSE, i, TRUE, "none")

\* The failure dict appended by an except branch of _execute_sequential.
FailedResult(i) == Slot(FALSE, i, FALSE, "error")

\* Variant: the failure is recorded without a recovery attempt.
RecoversNever(b) == FALSE

\* if self.error_recovery: (the except branch of the first attempt)
Recovers(b) == b.recovery

\* Variant: the output of a subtask is tagged like the execution record.
StoreOutputAsExecution(m, i) ==
    Store(m, Item("working", "str", "none", {"subtask_result", "execution", "build", "complete"},
                  "Builder", "none", 0, SubtaskEmb(i)))

\* _execute_subtask stores its output (a working text record) before returning.
StoreOutput(m, i) ==
    Store(m, Item("working", "str", "none", {"subtask_result", "execution"},
                  "Builder", "none", 0, SubtaskEmb(i)))

\* Variant: the builder raises when any result has success = false.
RaisesOnFailedSubtask(results) == \E k \in 1..Len(results) : ~results[k].success

\* process_task after the execution: nothing in the summary or the persisting
\* step depends on success flags in a way that raises.
RaisesOnResults(results) == FALSE

\* if self.execution_mode == "parallel" and len(subtasks) > 1: the branch
\* process_task takes, _execute_parallel or _execute_sequential.
UsedMode(mode, n) == IF mode = "parallel" /\ n > 1 THEN "parallel" ELSE "sequential"

\* "execution_mode": self.execution_mode in the execution record.
RecordedMode(b) == b.mode

\* process_task up to the choice of the execution mode: plan_id from the
\* context or from _find_latest_plan (has_plan: one of them gave an id),
\* subtasks from plan_data, the context or the store (n of them).
BldStart(mode, recovery, fast, has_plan, n, given, plan) ==
    /\ bld.phase = "idle"
    /\ given => has_plan
    /\ par.phase = "idle"
    /\ LET m1 == Logs(memory, "Builder", <<"action", "info">>)
           m2 == Logs(m1, "Builder", <<"info", "info">>)
           m3 == Logs(m2, "Builder", <<"info", "info">>)
           b0 == [bld EXCEPT !.mode = mode, !.recovery = recovery, !.fast = fast,
                             !.has_plan = has_plan, !.n = n, !.given = given,
                             !.plan_id = IF has_plan THEN plan ELSE 0]
       IN IF ~has_plan
          THEN /\ memory' = HandleError(m1, "Builder")
               /\ bld' = [b0 EXCEPT !.phase = "raised"]
          ELSE IF n = 0
               THEN /\ memory' = HandleError(m2, "Builder")
                    /\ bld' = [b0 EXCEPT !.phase = "raised"]
               ELSE /\ memory' = m3
                    /\ bld' = [b0 EXCEPT !.phase = UsedMode(mode, n),
                                         !.used = UsedMode(mode, n)]
    /\ UNCHANGED coordVars
    /\ UNCHANGED par
    /\ UNCHANGED <<mm, mop, hist, extVars>>

\* One pass of the try block of _execute_sequential for subtask bld.i:
\*   "ok"   - _execute_subtask returned, progress logged, sleep(0.2) done;
\*   "fail" - _execute_subtask raised;
\*   "late" - _execute_subtask returned and its result was appended, then a
\*            later await of the try block (the sleep between subtasks) raised.
\* followed by the except branch up to the recovery attempt.
SeqAttempt(outcome) ==
    /\ bld.phase = "sequential"
    /\ bld.i < bld.n
    /\ bld.step = "first"
    /\ LET i == bld.i
           m1 == Log(memory, "Builder", "action")
           done == outcome \in {"ok", "late"}
           m2 == IF done THEN Log(StoreOutput(m1, i), "Builder", "info") ELSE m1
           rs == IF done THEN Append(bld.results, SubtaskResult(i)) ELSE bld.results
           b1 == [bld EXCEPT !.attempts = Append(bld.attempts,
                                                  [index |-> i, retry |-> FALSE,
                                                   outcome |-> outcome]),
                             !.slept = IF bld.fast THEN bld.slept ELSE bld.slept + 1,
                             !.faults = IF outcome = "ok" THEN bld.faults ELSE bld.faults + 1]
       IN IF outcome = "ok"
          THEN /\ memory' = m2
               /\ bld' = [b1 EXCEPT !.results = rs, !.i = i + 1]
          ELSE IF Recovers(bld)
               THEN /\ memory' = Log(m2, "Builder", "warning")
                    /\ bld' = [b1 EXCEPT !.results = rs, !.step = "retry"]
               ELSE /\ memory' = Log(m2, "Builder", "error")
                    /\ bld' = [b1 EXCEPT !.results = Append(rs, FailedResult(i)),
                                         !.i = i + 1]
    /\ UNCHANGED coordVars
    /\ UNCHANGED par
    /\ UNCHANGED <<mm, mop, hist, extVars>>

\* The recovery attempt: _execute_subtask once more with retry = True in a
\* copy of the context; its failure is recorded as permanent.
SeqRetry(outcome) ==
    /\ bld.phase = "sequential"
    /\ bld.i < bld.n
    /\ bld.step = "retry"
    /\ LET i == bld.i
           b1 == [bld EXCEPT !.attempts = Append(bld.attempts,
                                                  [index |-> i, retry |-> TRUE,
                                                   outcome |-> outcome]),
                             !.slept = IF bld.fast THEN bld.slept ELSE bld.slept + 1,
                             !.step = "first", !.i = i + 1]
       IN IF outcome = "ok"
          THEN /\ memory' = Log(StoreOutput(memory, i), "Builder", "success")
               /\ bld' = [b1 EXCEPT !.results = Append(bld.results, SubtaskResult(i))]
          ELSE /\ memory' = Log(memory, "Builder", "error")
               /\ bld' = [b1 EXCEPT !.results = Append(bld.results, FailedResult(i)),
                                    !.faults = bld.faults + 1]
    /\ UNCHANGED coordVars
    /\ UNCHANGED par
    /\ UNCHANGED <<mm, mop, hist, extVars>>

\* _execute_sequential returns; process_task logs, builds the summary and
\* persists the results in the execution record.
SeqReturn ==
    /\ bld.phase = "sequential"
    /\ bld.i = bld.n
    /\ IF RaisesOnResults(bld.results)
       THEN /\ memory' = HandleError(memory, "Builder")
            /\ bld' = [bld EXCEPT !.phase = "raised"]
       ELSE /\ memory' = Log(Store(Logs(memory, "Builder", <<"info", "info", "success">>),
                                   Item("working", "dict", "none",
                                        {"execution", "build", "complete", "result", "Builder"},
                                        "Builder", "t1", RecordedPlanId(bld), 0)),
                             "Builder", "info")
            /\ bld' = [bld EXCEPT !.phase = "returned", !.persisted = bld.results]
    /\ UNCHANGED coordVars
    /\ UNCHANGED par
    /\ UNCHANGED <<mm, mop, hist, extVars>>

InitBuild ==
    /\ memory = EmptyMemory
    /\ max_retries = 0
    /\ created = {}
    /\ active = <<>>
    /\ now = 0
    /\ orch = IdleOrch
    /\ calls = <<>>
    /\ sleeps = <<>>
    /\ ndirect = 0
    /\ par \in {IdlePar(cap) : cap \in 1..MaxConcurrencyBound}
    /\ bld = IdleBld
    /\ mm = EmptyMM
    /\ mop = NoOp
    /\ hist = NoHist
    /\ rev = IdleRev
    /\ ag = IdleAg
    /\ bus = IdleBus
    /\ opt = IdleOpt

NextBuild ==
    \/ \E mode \in {"sequential", "parallel"}, recovery \in BOOLEAN, fast \in BOOLEAN,
          has_plan \in BOOLEAN, n \in 0..MaxSeqSubtasks, given \in BOOLEAN,
          plan \in PlanIds :
         BldStart(mode, recovery, fast, has_plan, n, given, plan)
    \/ \E outcome \in {"ok", "fail", "late"} : SeqAttempt(outcome)
    \/ \E outcome \in {"ok", "fail"} : SeqRetry(outcome)
    \/ SeqReturn
    \/ bld.phase = "parallel" /\ ParStart(bld.n)
    \/ \E i \in 1..par.n : ParAcquire(i)
    \/ \E i \in 1..par.n, outcome \in {"ok", "fail", "fault"} : ParFinish(i, outcome)
    \/ ParReturn

SpecBuild == InitBuild /\ [][NextBuild]_vars

(***************************************************************************)
(* MemoryManager driven through its API                                    *)
(***************************************************************************)
\* {"a": 1}, {1: "a"}, [(1,)], {(1,): "a"}
DictNative == PyDict(<<PyPair(PyStr("a"), PyInt("1"))>>)
DictIntKey == PyDict(<<PyPair(PyInt("1"), PyStr("a"))>>)
ListOfTuple == PyList(<<PyTuple(<<PyInt("1")>>)>>)
DictTupleKey == PyDict(<<PyPair(PyTuple(<<PyInt("1")>>), PyStr("a"))>>)

\* "note", "42", "{oops}", "", and '"[1]"' (the JSON document of the string
\* "[1]")
StrNote == PyStr("note")
StrNumber == JsonText(PyInt("42"))
StrBroken == PyStr("{oops}")
StrBlank == PyStr("")
StrQuoted == JsonText(JsonText(PyList(<<PyInt("1")>>)))

StructuredContents == {DictNative, DictIntKey, ListOfTuple, DictTupleKey}
TextContents == {StrNote, StrNumber, StrBroken, StrBlank, StrQuoted}

Ttls == {NoTtl, 0, 1}

Query(text, kind, tags, limit, threshold) ==
    [text |-> text, kind |-> kind, tags |-> tags, limit |-> limit, threshold |-> threshold]

\* MemoryQuery(limit=...) and MemoryQuery(text=..., limit=...), default threshold
ReadQueries ==
    {Query(text, "none", {}, MaxMemItems, SimThreshold) : text \in {PyNone, StrNote}}

InitMem ==
    /\ memory = EmptyMemory
    /\ max_retries = 0
    /\ created = {}
    /\ active = <<>>
    /\ now = 0
    /\ orch = IdleOrch
    /\ calls = <<>>
    /\ sleeps = <<>>
    /\ ndirect = 0
    /\ par = IdlePar(1)
    /\ bld = IdleBld
    /\ mm = EmptyMM
    /\ mop = NoOp
    /\ hist = NoHist
    /\ rev = IdleRev
    /\ ag = IdleAg
    /\ bus = IdleBus
    /\ opt = IdleOpt

\* Contents: every content, one kind, no tags, no expiry.
NextMem ==
    \/ \E content \in StructuredContents \cup TextContents :
         MemStore(content, "working", {}, NoTtl)
    \/ \E id \in 1..MaxMemItems : MemGet(id)
    \/ \E q \in ReadQueries : MemRetrieve(q)
    \/ \E id \in 1..MaxMemItems : MemDelete(id)

SpecMem == InitMem /\ [][NextMem]_vars

\* Expiry: every ttl, while the clock runs.
NextTtl ==
    \/ \E content \in {StrNote, DictNative}, ttl \in Ttls :
         MemStore(content, "working", {}, ttl)
    \/ \E id \in 1..MaxMemItems : MemGet(id)
    \/ MemCleanup
    \/ MemTick

SpecTtl == InitMem /\ [][NextTtl]_vars

\* Texts of three digest classes, and one without an embedding; working
\* records tagged "a" and episodic records tagged "b".
RetContents == {StrNote, StrBroken, PyStr("x"), StrBlank}
RetShapes == {[kind |-> "working", tags |-> {"a"}], [kind |-> "episodic", tags |-> {"b"}]}

\* Queries without text under every filter and limit; queries with text, with
\* and without a tag filter, cut short and not.
Queries ==
    {Query(PyNone, kind, tags, limit, SimThreshold) :
        kind \in {"none", "working"}, tags \in {{}, {"a"}}, limit \in {0, 1, MaxMemItems}}
    \cup
    {Query(PyStr("task"), "none", tags, limit, SimThreshold) :
        tags \in {{}, {"b"}}, limit \in {1, MaxMemItems}}

\* Retrieval: every digest class under both filters, every query shape.
NextRet ==
    \/ \E content \in RetContents, shape \in RetShapes :
         MemStore(content, shape.kind, shape.tags, NoTtl)
    \/ \E q \in Queries : MemRetrieve(q)

SpecRet == InitMem /\ [][NextRet]_vars

\* Texts embedded by store() and by retrieve(), more of them than the cache
\* admits, with cleanup() in between.
CacheTexts == {StrNote, StrBroken, PyStr("x"), PyStr("task")}

NextCache ==
    \/ \E content \in CacheTexts : MemStore(content, "working", {}, NoTtl)
    \/ \E text \in CacheTexts :
         MemRetrieve(Query(text, "none", {}, MaxMemItems, SimThreshold))
    \/ MemCleanup

SpecCache == InitMem /\ [][NextCache]_vars

\* Records with and without expiry are stored, read by id and by query
\* (without and with text) while the clock runs, and cleaned up.
NextExpiry ==
    \/ \E content \in {StrNote, DictNative}, ttl \in Ttls :
         MemStore(content, "working", {}, ttl)
    \/ \E id \in 1..MaxMemItems : MemGet(id)
    \/ \E q \in ReadQueries : MemRetrieve(q)
    \/ MemCleanup
    \/ MemTick

SpecExpiry == InitMem /\ [][NextExpiry]_vars

(***************************************************************************)
(* Properties of the Orchestrator (SpecOrch)                               *)
(***************************************************************************)
StageIndex(name) == CHOOSE k \in 1..3 : Stages[k] = name

CallsOf(name) == SelectSeq(calls, LAMBDA c: c.stage = name)

WrittenSinceStart == {r \in SeqToSet(memory.items) : r.id >= orch.start}

ReportsSinceStart == {r \in WrittenSinceStart : r.ptype = "full_pipeline"}

\* Every record of the store that matches a stage's signature, whether or not
\* the similarity query returns it.
AllPlans(task) ==
    {r \in SeqToSet(memory.items) :
        r.ptype = "task_decomposition" /\ r.content = "dict" /\ r.task = task}

AllExecutions(task) ==
    {r \in SeqToSet(memory.items) :
        ("execution" \in r.tags \/ "build" \in r.tags) /\ r.content = "dict" /\ r.task = task}

AllReviews(plan_id) ==
    {r \in SeqToSet(memory.items) :
        r.ptype = "execution_review" /\ r.content = "dict" /\ r.plan_id = plan_id}

AllFailed(cs) == \A i \in 1..Len(cs) : ~cs[i].ok

\* C1: if every attempt of a stage fails, the stage function is invoked
\* exactly max_retries+1 times, orchestrate then raises, and no attempt of a
\* later stage is made, then or ever after.
C1_RetryExhaustion ==
    /\ [](\A k \in 1..3 :
            LET cs == CallsOf(Stages[k])
            IN (cs # <<>> /\ AllFailed(cs)) =>
                 /\ Len(cs) <= max_retries + 1
                 /\ (orch.phase = "raised") <=> (Len(cs) = max_retries + 1)
                 /\ orch.phase # "returned"
                 /\ \A i \in 1..Len(calls) : StageIndex(calls[i].stage) <= k)
    /\ [][orch.phase = "raised" => (calls' = calls /\ orch' = orch)]_vars

C1_Witness ==
    /\ orch.phase = "raised"
    /\ max_retries = 1
    /\ Len(CallsOf("building")) = 2
    /\ CallsOf("reviewing") = <<>>

\* The id a successful stage returned is the one orchestrate holds and the one
\* the later stages were given.
HandedOn(k, id) ==
    CASE k = 1 -> /\ orch.plan_id = id
                  /\ \A r \in WrittenSinceStart :
                       ("complete" \in r.tags \/ r.ptype = "execution_review")
                          => r.plan_id = id
      [] k = 2 -> orch.execution_id = id
      [] OTHER -> orch.review_id = id

\* C2: a stage that fails k < max_retries+1 times and then succeeds is invoked
\* exactly k+1 times: a failure short of the budget leads to the next
\* invocation, the first success is the last invocation, its result is what
\* the next stage gets, and orchestrate returns exactly when all three stages
\* succeeded.
C2_RetryAccounting ==
    /\ \A k \in 1..3 :
         LET cs == CallsOf(Stages[k])
             n == Len(cs)
         IN /\ \A i \in 1..n : cs[i].attempt = i - 1 /\ (cs[i].ok => i = n)
            /\ (n > 0 /\ cs[n].ok) =>
                 /\ n <= max_retries + 1
                 /\ HandedOn(k, cs[n].id)
                 /\ (orch.stage > k \/ orch.phase = "returned")
            /\ (n > 0 /\ ~cs[n].ok /\ n < max_retries + 1) =>
                 /\ orch.phase = "running"
                 /\ orch.stage = k
                 /\ orch.attempt = n
    /\ (orch.phase = "returned") <=>
          (\A k \in 1..3 : LET cs == CallsOf(Stages[k])
                           IN cs # <<>> /\ cs[Len(cs)].ok)

C2_Witness ==
    /\ orch.phase = "returned"
    /\ Len(CallsOf("planning")) = 2
    /\ Len(CallsOf("building")) = 2

\* C3: the stages run in the order planning, building, reviewing; building
\* starts only after a planning attempt returned a plan id, reviewing only
\* after a building attempt returned an execution id, and no earlier stage is
\* attempted after a later one.
C3_StageOrder ==
    /\ \A i, j \in 1..Len(calls) :
         i < j => StageIndex(calls[i].stage) <= StageIndex(calls[j].stage)
    /\ \A j \in 1..Len(calls) :
         /\ calls[j].stage = "building" =>
              \E i \in 1..(j - 1) : /\ calls[i].stage = "planning"
                                    /\ calls[i].ok
                                    /\ calls[i].id > 0
                                    /\ orch.plan_id = calls[i].id
         /\ calls[j].stage = "reviewing" =>
              \E i \in 1..(j - 1) : /\ calls[i].stage = "building"
                                    /\ calls[i].ok
                                    /\ calls[i].id > 0
                                    /\ orch.execution_id = calls[i].id
    /\ (orch.phase = "running" /\ orch.stage >= 2) => CallsOf("planning") # <<>>
    /\ (orch.phase = "running" /\ orch.stage = 3) => CallsOf("building") # <<>>

C3_Witness ==
    /\ CallsOf("reviewing") # <<>>
    /\ Len(CallsOf("planning")) = 2

\* C4: the id adopted after a stage is the id of the most recently created
\* record among all records of the store that match the stage's signature and
\* the task (for reviews: the plan) of this orchestration.
C4_NewestMatchAdopted ==
    \A i \in 1..Len(calls) :
        calls[i].ok =>
            calls[i].id =
                CASE calls[i].stage = "planning" -> NewestId(AllPlans(orch.task))
                  [] calls[i].stage = "building" -> NewestId(AllExecutions(orch.task))
                  [] OTHER -> NewestId(AllReviews(orch.plan_id))

\* A hand-off miss: process_task returned, the store query found nothing.
Miss(c) == ~c.raised /\ c.id = 0

\* C5: an attempt whose store query finds no matching record is a failed
\* attempt: the stage is run again while the budget lasts, orchestrate raises
\* when it is exhausted, and a later stage is entered only with an id of a
\* matching record of the store.
C5_HandoffMiss ==
    /\ \A j \in 1..Len(calls) :
         Miss(calls[j]) =>
            /\ ~calls[j].ok
            /\ IF j < Len(calls)
               THEN /\ calls[j + 1].stage = calls[j].stage
                    /\ calls[j + 1].attempt = calls[j].attempt + 1
               ELSE \/ /\ orch.phase = "running"
                       /\ Stages[orch.stage] = calls[j].stage
                       /\ orch.attempt = calls[j].attempt + 1
                       /\ calls[j].attempt < max_retries
                    \/ /\ orch.phase = "raised"
                       /\ calls[j].attempt = max_retries
    /\ (orch.phase # "idle" /\ (orch.stage >= 2 \/ orch.phase = "returned")) =>
          orch.plan_id \in {r.id : r \in AllPlans(orch.task)}
    /\ (orch.phase # "idle" /\ (orch.stage = 3 \/ orch.phase = "returned")) =>
          orch.execution_id \in {r.id : r \in AllExecutions(orch.task)}
    /\ orch.phase = "returned" =>
          orch.review_id \in {r.id : r \in AllReviews(orch.plan_id)}

C5_Witness ==
    /\ orch.phase = "raised"
    /\ max_retries = 1
    /\ Len(calls) = 2
    /\ Miss(calls[1]) /\ Miss(calls[2])

\* C6: after an orchestration in which all three stages succeeded the store
\* holds exactly one OrchestrationReport record of that orchestration,
\* whichever entry point started it.
C6_OneReport ==
    orch.phase = "returned" => Cardinality(ReportsSinceStart) = 1

\* C7: when a stage exhausts its retries the error is raised out of the
\* Orchestrator and no OrchestrationReport record is written: a report of this
\* orchestration exists only once orchestrate has returned.
C7_NoReportOnExhaustion ==
    /\ ReportsSinceStart # {} => orch.phase = "returned"
    /\ orch.phase = "raised" =>
          /\ active[orch.id].status = Status("failed", 0)
          /\ \E k \in 1..3 : LET cs == CallsOf(Stages[k])
                             IN Len(cs) = max_retries + 1 /\ AllFailed(cs)

C7_Witness ==
    /\ orch.phase = "raised"
    /\ orch.entry = "process_task"
    /\ orch.stage = 3

(***************************************************************************)
(* Properties of parallel execution (SpecPar)                              *)
(***************************************************************************)
InFlight == {i \in 1..par.n : par.pc[i] = "running"}

\* C8: the number of subtasks simultaneously inside _execute_subtask never
\* exceeds max_concurrency.
C8_ConcurrencyBound == Cardinality(InFlight) <= par.cap

C8_Witness ==
    /\ Cardinality(InFlight) = par.cap
    /\ par.n > par.cap
    /\ \E i \in 1..par.n : par.pc[i] = "waiting"
    /\ \E i \in 1..par.n : par.pc[i] = "done"

\* C9: whatever subset of subtasks fails, _execute_parallel does not raise,
\* returns only after every subtask has run to completion, and reports the
\* failed ones as results with success = false carrying the error.
C9_FailureIsolation ==
    /\ par.phase # "raised"
    /\ par.phase = "returned" =>
         \A i \in 1..par.n :
            /\ par.pc[i] = "done"
            /\ par.outcome[i] # "none"
            /\ ~par.returned[i].exc
            /\ par.returned[i].success = (par.outcome[i] = "ok")
            /\ (par.outcome[i] # "ok" => par.returned[i].error \in {"error", "exception"})

C9_Witness ==
    /\ par.phase = "returned"
    /\ \E i, j, k \in 1..par.n :
         par.outcome[i] = "ok" /\ par.outcome[j] = "fail" /\ par.outcome[k] = "fault"

\* C10: whatever the completion order, the list returned and the list
\* persisted in the execution record hold one result per subtask, the i-th
\* with index i.
C10_IndexOrder ==
    par.phase = "returned" =>
        /\ Len(par.returned) = par.n
        /\ par.persisted = par.returned
        /\ \A i \in 1..par.n : par.returned[i].index = i - 1

C10_Witness ==
    /\ par.phase = "returned"
    /\ par.order[1] = par.n
    /\ \A i \in 1..par.n : par.outcome[i] # "fault"

\* C36: for every subtask list and every max_concurrency >= 1, parallel
\* execution terminates: a started _execute_parallel eventually returns,
\* every subtask passes from waiting for the semaphore to running to done
\* (it never finishes without having held a permit), the permits handed out
\* and the free ones always add up to max_concurrency, also after failures,
\* and when _execute_parallel has returned all permits are free.
C36_ParallelTerminates ==
    /\ (par.phase = "gather") ~> (par.phase = "returned")
    /\ [](par.phase # "idle" => par.permits + Cardinality(InFlight) = par.cap)
    /\ [](par.phase = "returned" =>
            /\ par.permits = par.cap
            /\ \A i \in 1..par.n : par.pc[i] = "done")
    /\ [][\A i \in 1..par.n :
            (par.phase = "gather" /\ par'.pc[i] # par.pc[i]) =>
                \/ par.pc[i] = "waiting" /\ par'.pc[i] = "running"
                \/ par.pc[i] = "running" /\ par'.pc[i] = "done"]_vars

\* More subtasks than permits, one of them failed and one raised in its
\* wrapper, and _execute_parallel has returned.
C36_Witness ==
    /\ par.phase = "returned"
    /\ par.n > par.cap
    /\ \E i, j \in 1..par.n : par.outcome[i] = "fail" /\ par.outcome[j] = "fault"
    /\ par.permits = par.cap

(***************************************************************************)
(* Properties of BuilderAgent.process_task (SpecBuild)                     *)
(***************************************************************************)
AttemptsOf(j) == SelectSeq(bld.attempts, LAMBDA a: a.index = j)

\* C11: with N subtasks, no induced failure and fast mode, sequential
\* execution returns exactly N results, all successful, with indices 0..N-1
\* in that order (and no execution sleep was made).
C11_SequentialAllSucceed ==
    (bld.phase = "returned" /\ bld.fast /\ bld.faults = 0) =>
        /\ Len(bld.results) = bld.n
        /\ \A k \in 1..bld.n : bld.results[k] = Slot(FALSE, k - 1, TRUE, "none")
        /\ bld.slept = 0

C11_Witness ==
    /\ bld.phase = "returned"
    /\ bld.fast
    /\ bld.faults = 0
    /\ bld.n = MaxSeqSubtasks

\* C12: in sequential mode, whatever failures are raised while subtasks are
\* processed, the batch runs to its end and the returned list holds exactly
\* one result per subtask index, in index order.
C12_OneResultPerIndex ==
    /\ bld.phase = "raised" => (~bld.has_plan \/ bld.n = 0)
    /\ bld.phase = "returned" =>
         /\ Len(bld.results) = bld.n
         /\ \A k \in 1..Len(bld.results) : bld.results[k].index = k - 1

\* C13: with error recovery a subtask whose first attempt fails is attempted
\* exactly once more, with the context marked as a retry, before a permanent
\* failure is recorded; without error recovery there is no second attempt; no
\* subtask is attempted more than twice.
C13_RetryOnce ==
    \A j \in 0..(bld.n - 1) :
        LET as == AttemptsOf(j)
        IN /\ Len(as) <= 2
           /\ Len(as) >= 1 => ~as[1].retry
           /\ Len(as) = 2 => (as[2].retry /\ bld.recovery /\ as[1].outcome # "ok")
           /\ (j < bld.i /\ bld.recovery /\ as[1].outcome # "ok") => Len(as) = 2
           /\ (\E k \in 1..Len(bld.results) : bld.results[k] = FailedResult(j)) =>
                 Len(as) = IF bld.recovery THEN 2 ELSE 1

C13_Witness ==
    /\ bld.phase = "returned"
    /\ bld.recovery
    /\ \E j \in 0..(bld.n - 1) :
         /\ Len(AttemptsOf(j)) = 2
         /\ AttemptsOf(j)[1].outcome = "fail"
         /\ \E k \in 1..Len(bld.results) : bld.results[k] = FailedResult(j)

\* C14: process_task raises only when it finds no plan id or no subtask, and
\* then it does raise; individual subtask failures, in sequential or in
\* parallel mode, never make it raise.
C14_RaisesOnlyOnPrecondition ==
    /\ bld.phase = "raised" <=> (bld.phase # "idle" /\ (~bld.has_plan \/ bld.n = 0))
    /\ par.phase # "raised"
    /\ par.phase # "idle" => (bld.phase = "parallel" /\ par.n = bld.n)

C14_Witness ==
    /\ bld.phase = "returned"
    /\ bld.faults = bld.n
    /\ bld.n = MaxSeqSubtasks
    /\ \A k \in 1..Len(bld.results) : ~bld.results[k].success

\* C37: in parallel mode every subtask is attempted exactly once whatever
\* the error-recovery flag, and a subtask that fails is reported with
\* success = false; in sequential mode with error recovery a subtask whose
\* first attempt fails is attempted again and reported with the outcome of
\* the second attempt, so the two modes can differ on the same first failure.
C37_ParallelNoRetry ==
    /\ bld.phase = "parallel" /\ par.phase # "idle" =>
          \A i \in 1..par.n :
             /\ par.tries[i] = IF par.pc[i] = "waiting" THEN 0 ELSE 1
             /\ par.pc[i] = "done" => par.slots[i].success = (par.outcome[i] = "ok")
    /\ bld.phase = "parallel" /\ par.phase = "returned" =>
          \A i \in 1..par.n : par.returned[i].success = (par.outcome[i] = "ok")
    /\ bld.phase = "returned" /\ bld.recovery =>
          \A j \in 0..(bld.n - 1) :
             LET as == AttemptsOf(j)
             IN (Len(as) >= 1 /\ as[1].outcome = "fail") =>
                   /\ Len(as) = 2
                   /\ \E k \in 1..Len(bld.results) :
                         /\ bld.results[k].index = j
                         /\ bld.results[k].success = (as[2].outcome = "ok")

\* A parallel run with error recovery enabled has returned with a failed
\* subtask reported as failed after its single attempt.
C37_Witness ==
    /\ bld.phase = "parallel" /\ par.phase = "returned"
    /\ bld.recovery
    /\ \E i \in 1..par.n :
          par.outcome[i] = "fail" /\ ~par.returned[i].success /\ par.tries[i] = 1

\* The execution records in the store (store_result with the tags execution,
\* build, complete).
ExecutionRecords ==
    {r \in SeqToSet(memory.items) : {"execution", "build", "complete"} \subseteq r.tags}

\* The run of process_task has returned (through either branch).
BldReturned ==
    \/ bld.phase = "returned"
    \/ bld.phase = "parallel" /\ par.phase = "returned"

\* C38: a call of the Builder's process_task writes exactly one execution
\* record (tags execution, build, complete) if it returns and none if it
\* raises, and the record is written only after every subtask of the run has
\* produced its result: while the run is in progress the store holds none.
C38_OneExecutionRecord ==
    /\ BldReturned => Cardinality(ExecutionRecords) = 1
    /\ ~BldReturned => ExecutionRecords = {}
    /\ ExecutionRecords # {} =>
          IF bld.phase = "parallel"
          THEN /\ \A i \in 1..par.n : par.pc[i] = "done"
               /\ Len(par.persisted) = bld.n
          ELSE /\ bld.i = bld.n
               /\ \A j \in 0..(bld.n - 1) :
                     \E k \in 1..Len(bld.persisted) : bld.persisted[k].index = j

\* A sequential run of several subtasks, some of which failed, has returned
\* and the store holds its execution record after the subtask outputs.
C38_Witness ==
    /\ bld.phase = "returned"
    /\ bld.n = MaxSeqSubtasks
    /\ bld.faults > 0
    /\ Cardinality(ExecutionRecords) = 1
    /\ \E r \in SeqToSet(memory.items) : "subtask_result" \in r.tags

(***************************************************************************)
(* Properties of the MemoryManager contents (SpecMem)                      *)
(***************************************************************************)
\* The record of mm the last call was about.
Target == mm.items[Position(mm.items, mop.id)]

\* C15: for all structured content x (a dict or a list), get(store(x)).content
\* equals x, on the first read and on every later read by get or retrieve:
\* whenever get returns a record that was written from structured content, the
\* content it returns equals the value given to store, and every record of the
\* store that has been restored from structured content equals what was given.
C15_StructuredRoundTrip ==
    /\ (mop.op = "get" /\ mop.found /\ Target.given.py \in {"dict", "list"})
          => mop.content = Target.given
    /\ \A k \in 1..Len(mm.items) :
          (mm.items[k].given.py \in {"dict", "list"} /\ mm.items[k].content.py # "str")
             => mm.items[k].content = mm.items[k].given

Removed == SelectSeq(mop.before, LAMBDA r : ~Holds(mm.items, r.id))

\* Time has exceeded the expiry of a record written with a ttl.
PastTtl(r) == r.ttl # NoTtl /\ mm.clock > r.created_at + r.ttl

\* C17: a record stored with ttl = t is present immediately after storing;
\* once time exceeds its expiry the next cleanup() removes it, so that get
\* returns absent; cleanup() returns exactly the number of records it removed
\* and removes no record without an expiry or whose expiry has not passed.
C17_TtlExpiry ==
    /\ mop.op = "store" => Holds(mm.items, mop.id)
    /\ mop.op = "cleanup" =>
          /\ \A k \in 1..Len(mop.before) :
                PastTtl(mop.before[k]) <=> ~Holds(mm.items, mop.before[k].id)
          /\ mop.count = Len(Removed)
    /\ mop.op = "get" => (mop.found <=> Holds(mm.items, mop.id))

(***************************************************************************)
(* Properties of retrieval (SpecRet)                                       *)
(***************************************************************************)
\* The record of mm with the k-th id the last retrieve() returned.
Returned(k) == mm.items[Position(mm.items, mop.ids[k])]

\* The records of mm of the kind and with one of the tags the last query asked for.
Candidates ==
    SelectSeq(mm.items,
              LAMBDA r : /\ mop.q.kind # "none" => r.kind = mop.q.kind
                         /\ mop.q.tags # {} => \E t \in mop.q.tags : t \in r.tags)

\* C18: for every query with limit >= 0 and every store state, retrieve
\* returns at most limit records; every returned record passes the kind filter
\* and the tag-intersection filter; when query text is present the returned
\* records are in non-increasing similarity order and each has similarity >=
\* threshold; when text is absent no ranking or threshold is applied and
\* truncation happens after filtering (the result is the first limit
\* candidates in store order).
C18_RetrieveInvariants ==
    mop.op = "retrieve" =>
       /\ Len(mop.ids) <= mop.q.limit
       /\ \A k \in 1..Len(mop.ids) :
             /\ mop.q.kind # "none" => Returned(k).kind = mop.q.kind
             /\ mop.q.tags # {} => mop.q.tags \cap Returned(k).tags # {}
       /\ HasText(mop.q) =>
             /\ \A k \in 1..Len(mop.ids) :
                   /\ Returned(k).embedding # NoEmb
                   /\ mop.sims[k] = Cosine(Md5Class(mop.q.text), Returned(k).embedding)
                   /\ mop.sims[k] >= mop.q.threshold
             /\ \A k \in 1..(Len(mop.ids) - 1) : mop.sims[k] >= mop.sims[k + 1]
       /\ ~HasText(mop.q) =>
             mop.ids = [k \in 1..(IF Len(Candidates) < mop.q.limit THEN Len(Candidates)
                                  ELSE mop.q.limit) |-> Candidates[k].id]

\* A query with text and a tag filter returned two records, the later-written
\* one first because it is more similar.
C18_Witness ==
    /\ mop.op = "retrieve" /\ HasText(mop.q) /\ mop.q.tags = {"b"}
    /\ mop.ids = <<2, 1>>
    /\ mop.sims = <<2, 1>>

\* What the same query, issued again right after the last retrieve(), returns.
AgainQe == IF HasText(mop.q) THEN Embed(mm.cache, mop.q.text) ELSE NoEmb
Again == Matched(mm.items, mop.q, AgainQe)

\* C19: two identical retrieve queries issued one after the other, with no
\* store, delete or cleanup in between, return the same records in the same
\* order (the first retrieve does not change what the second returns: the same
\* ids, in the same order, with the same contents), and the embedding of a
\* text is the same whether or not it is served from the cache.
C19_RepeatRetrieve ==
    /\ mop.op = "retrieve" =>
          /\ IdsOf(Again) = mop.ids
          /\ \A k \in 1..Len(Again) : Restore(Again[k]).content = mop.contents[k]
    /\ (mop.op \in {"retrieve", "store"} /\ mop.emb # NoEmb) =>
          mop.emb = Md5Class(IF mop.op = "retrieve" THEN mop.q.text
                             ELSE Processed(mop.content))
    /\ \A k \in 1..Len(mm.cache) : mm.cache[k].emb = Md5Class(mm.cache[k].text)

(***************************************************************************)
(* Properties of the history queries (SpecHist)                            *)
(***************************************************************************)
\* The records of the store that belong to the category a history query is for.
Category(query) ==
    {r \in SeqToSet(memory.items) :
       CASE query = "plans" -> r.agent = "Planner" /\ r.ptype = "task_decomposition"
         [] query = "executions" -> r.agent = "Builder" /\ "execution" \in r.tags
         [] query = "reviews" -> r.agent = "Reviewer" /\ r.ptype = "execution_review"
         [] OTHER -> r.agent = "Coordinator" /\ r.ptype = "full_pipeline"}

\* C20: for every store state and limit >= 1, each history query
\* (get_recent_plans, get_execution_history, get_review_history,
\* get_orchestration_history) returns the min(limit, number of matching
\* records) most recently created records matching that stage's category,
\* ordered newest first.
C20_HistoryNewest ==
    hist.query # "none" =>
       hist.ids = Truncate(NewestFirst(Category(hist.query)), hist.limit)

(***************************************************************************)
(* Properties of the Scoring stage (SpecReview)                            *)
(***************************************************************************)
ReviewRecords == {r \in SeqToSet(memory.items) : r.ptype = "execution_review"}

\* C21: every successfully completed Scoring run, started by
\* review_execution or by process_task, leaves exactly one Review record in
\* the store, and a following get_review_history(limit >= 1) returns at least
\* one review.
C21_OneReviewPerRun ==
    /\ rev.phase = "done" /\ ~rev.raised =>
          Cardinality(ReviewRecords) = rev.before + 1
    /\ rev.phase = "done" /\ ~rev.raised /\ hist.query = "reviews" =>
          hist.ids # <<>>

\* C22: for any plan with at least one subtask and any execution payload the
\* accuracy computed by the Scoring stage lies in [0,1]: the results counted
\* as successful never exceed the planned subtasks.
C22_AccuracyInUnit ==
    rev.phase = "done" /\ rev.planned >= 1 =>
       /\ 0 <= rev.accuracy.num
       /\ rev.accuracy.num <= rev.accuracy.den

(***************************************************************************)
(* Error records (SpecOrch, SpecBuild)                                     *)
(***************************************************************************)
\* The structured records written by handle_error: error kind, context label
\* and traceback in a dict.
ErrorRecords(rs) == {r \in rs : "error" \in r.tags /\ r.content = "dict"}

\* C23: every handled error, a subtask failure caught by the Execution Engine
\* or a stage attempt failure caught by the retry policy (a hand-off miss
\* included), results in an error record in the store: there are at least as
\* many error records as failures handled.
C23_HandledErrorsRecorded ==
    /\ Cardinality(ErrorRecords(WrittenSinceStart))
          >= Cardinality({k \in 1..Len(calls) : ~calls[k].ok})
    /\ Cardinality(ErrorRecords(SeqToSet(memory.items))) >= bld.faults

(***************************************************************************)
(* Properties of the agents' lifecycle and error handling (SpecAgent)      *)
(***************************************************************************)
\* C24: when process_task fails with an error E that is to propagate and
\* persisting the error record itself fails, the error raised to the caller
\* is still E.
C24_OriginalErrorRaised ==
    ag.op = "process_task" => ag.raised = ag.error

C25_PublishIsolated ==
    /\ ~bus.pub.escaped
    /\ bus.pub.done =>
          [k \in 1..Len(bus.pub.called) |-> bus.pub.called[k].cb] = bus.pub.copy
    /\ \A i, j \in 1..Len(bus.pub.called) :
          bus.pub.called[i].cb = bus.pub.called[j].cb => i = j
    /\ \A t \in Topics : \A i, j \in 1..Len(bus.subs[t]) :
          bus.subs[t][i] = bus.subs[t][j] => i = j

\* A publish to two subscribers has finished; the first one raised, and some
\* callback had been subscribed again while it was in the list.
C25_Witness ==
    /\ bus.pub.done
    /\ bus.resub
    /\ Len(bus.pub.called) = 2
    /\ bus.pub.called[1].raised

(***************************************************************************)
(* Properties of the orchestration status (SpecStatus)                     *)
(***************************************************************************)
Terminal(entry) == entry.status.s \in {"complete", "failed"}

Finished == orch.phase \in {"returned", "raised", "cancelled"}

\* C34: whenever a call of orchestrate has finished, the status recorded for
\* its id is "complete" if it returned and "failed" if it ended by raising,
\* cancellation during a stage included; no finished orchestration is left in
\* a "<stage>_attempt_n" or "running" status.
C34_FinishedStatus ==
    Finished =>
       GetOrchestrationStatus(active, orch.id).status =
          IF orch.phase = "returned" THEN Status("complete", 0) ELSE Status("failed", 0)

\* C35: two orchestrations started on the same Coordinator, one after the
\* other or concurrently, get distinct orchestration ids: a call that starts
\* registers an id that is not in the dict yet, and a step of another call
\* leaves the status, error and result of every registered orchestration.
C35_DistinctIds ==
    [][/\ (orch.phase = "idle" /\ orch'.phase = "running") => orch'.id \notin DOMAIN active
       /\ orch' = orch =>
             \A id \in DOMAIN active : id \in DOMAIN active' /\ active'[id] = active[id]]_vars

\* The report of the orchestration that has just returned.
Report == GetOrchestrationStatus(active, orch.id).result

\* C33: in every report returned by orchestrate, the execution record named by
\* execution_id has a plan_id field equal to the report's plan_id and the
\* review named by review_id refers to the same plan_id, also when earlier
\* orchestrations of the same task have written plans, executions and reviews
\* to the same store.
C33_ReportOfOnePlan ==
    orch.phase = "returned" =>
       /\ \A r \in SeqToSet(Get(memory, Report.execution_id)) : r.plan_id = Report.plan_id
       /\ \A r \in SeqToSet(Get(memory, Report.review_id)) : r.plan_id = Report.plan_id

(***************************************************************************)
(* Properties of plan optimization (SpecOpt)                               *)
(***************************************************************************)
\* C28: optimize(planId, goal) never mutates the original Plan record: after
\* it, get(planId) returns content equal to what it returned before, and
\* exactly one new plan record, holding the transformed subtask list, has
\* been added to the store.
C28_OptimizeKeepsOriginal ==
    opt.last.op = "optimize" /\ ~opt.last.raised =>
       LET id == opt.last.plan_id
           new == opt.items[Len(opt.items)]
       IN /\ opt.items[id].subtasks = opt.last.before
          /\ opt.items[id].ptype \in {"task_decomposition", "optimized_decomposition"}
          /\ Len(opt.items) = opt.last.plans + 1
          /\ new.original = id
          /\ new.ptype = "optimized_decomposition"
          /\ new.subtasks = ApplyOptimization(opt.last.before, opt.last.goal)
          /\ SeqToSet(opt.last.before) \subseteq SeqToSet(new.subtasks)

\* An optimization for quality has put its two steps into a new record.
C28_Witness ==
    /\ opt.last.op = "optimize"
    /\ ~opt.last.raised
    /\ opt.last.goal = "quality"
    /\ Len(opt.items[Len(opt.items)].subtasks) = Len(opt.last.before) + 2

\* The failed attempts of the running call that are followed by another one.
RetriedCalls == SelectSeq(calls, LAMBDA c : ~c.ok /\ c.attempt < max_retries)

RECURSIVE SumSecs(_)
SumSecs(list) == IF list = <<>> THEN 0 ELSE Head(list).secs + SumSecs(Tail(list))

\* C29: between failed attempt a (0-based) and attempt a+1 of a stage the
\* Coordinator sleeps exactly 2^a seconds: the sleeps of a call are, in order,
\* one of 2^a per failed attempt a < max_retries and none after a successful
\* attempt or after attempt max_retries, the clock has advanced by their sum,
\* and when the retries are exhausted the error raised is the one of the last
\* attempt (attempt max_retries of the stage that ran last).
C29_Backoff ==
    /\ Len(sleeps) = Len(RetriedCalls)
    /\ \A k \in 1..Len(sleeps) :
         /\ sleeps[k].stage = RetriedCalls[k].stage
         /\ sleeps[k].attempt = RetriedCalls[k].attempt
         /\ sleeps[k].secs = 2 ^ sleeps[k].attempt
    /\ orch.phase # "idle" => now = orch.id + SumSecs(sleeps)
    /\ orch.phase = "raised" =>
         /\ calls # <<>>
         /\ ~calls[Len(calls)].ok
         /\ calls[Len(calls)].attempt = max_retries
         /\ orch.raised = [stage |-> calls[Len(calls)].stage, attempt |-> max_retries]
         /\ \A k \in 1..(Len(calls) - 1) :
              calls[k].stage = calls[Len(calls)].stage => calls[k].attempt < max_retries

\* A stage failed three times in a row and was retried each time (sleeps of
\* 1, 2 and 4 seconds), and the call ended by raising after a last attempt.
C29_Witness ==
    /\ orch.phase = "raised"
    /\ max_retries = 3
    /\ \E k \in 1..Len(sleeps) : sleeps[k].attempt = 2 /\ sleeps[k].secs = 4
    /\ \E k \in 1..Len(calls) : calls[k].ok
\* C30: the execution_mode field of every persisted execution record equals
\* the mode in which the subtasks of that run were executed, for both
\* configured modes and every subtask count, a single subtask included.
C30_RecordedModeIsUsedMode ==
    (bld.phase = "returned" \/ (bld.phase = "parallel" /\ par.phase = "returned")) =>
        RecordedMode(bld) = bld.used
\* C31: the plan_id field of every persisted execution record is the id of
\* the plan whose subtasks the run executed, both when the id came with the
\* context and when process_task located the plan by searching the store.
C31_RecordedPlanIsExecutedPlan ==
    \A r \in ExecutionRecords : r.plan_id = bld.plan_id
(***************************************************************************)
(* Properties of the embedding cache (SpecCache)                           *)
(***************************************************************************)
\* The text the last operation embedded (None when it embedded nothing).
EmbeddedText ==
    CASE mop.op = "store" /\ mop.emb # NoEmb -> Processed(mop.content)
      [] mop.op = "retrieve" /\ HasText(mop.q) -> mop.q.text
      [] OTHER -> PyNone

\* The last operation embedded a text the cache did not hold and the cache
\* did not take it in.
Refused == EmbeddedText # PyNone /\ ~mop.hit /\ ~CacheHit(mm.cache, EmbeddedText)

\* C40: the embedding cache never holds more than the ceiling; once it is
\* full, _embed computes and returns the vector of a new text without caching
\* it, and no step of _embed removes or changes an entry already cached.
C40_CacheAtMostCeiling ==
    /\ [](/\ Len(mm.cache) <= CacheCeiling
          /\ \A j, k \in 1..Len(mm.cache) : j # k => mm.cache[j].text # mm.cache[k].text
          /\ Refused => /\ Len(mm.cache) = CacheCeiling
                        /\ mop.emb = Md5Class(EmbeddedText))
    /\ [][mop'.op \in {"store", "retrieve"} =>
            /\ Len(mm'.cache) >= Len(mm.cache)
            /\ SubSeq(mm'.cache, 1, Len(mm.cache)) = mm.cache
            /\ Len(mm.cache) = CacheCeiling => mm'.cache = mm.cache]_vars

\* The cache is full and a new text was embedded without being cached.
C40_Witness == Refused /\ Len(mm.cache) = CacheCeiling
\* A record whose text store() embedded.
Embedded(r) == r.embedding # NoEmb

SimilarEnough ==
    SelectSeq(mm.items,
              LAMBDA r : /\ Embedded(r)
                         /\ Cosine(Md5Class(mop.q.text), r.embedding) >= mop.q.threshold)

\* C39: expiry is enforced only by cleanup(): get finds every record the
\* store holds and retrieve returns every record its query selects, whether
\* or not its expiry time has passed; get and retrieve leave the set of
\* records as it is, store only adds its record, and a record leaves the
\* store only in a cleanup() step.
C39_ExpiryOnlyByCleanup ==
    /\ [](/\ mop.op = "get" => (mop.found <=> Holds(mm.items, mop.id))
          /\ mop.op = "retrieve" /\ ~HasText(mop.q) => mop.ids = IdsOf(mm.items)
          /\ mop.op = "retrieve" /\ HasText(mop.q) =>
                SeqToSet(mop.ids) = SeqToSet(IdsOf(SimilarEnough)))
    /\ [][/\ mop'.op \in {"get", "retrieve"} => IdsOf(mm'.items) = IdsOf(mm.items)
          /\ mop'.op = "store" => IdsOf(mm'.items) = Append(IdsOf(mm.items), mop'.id)
          /\ (\E k \in 1..Len(mm.items) : ~Holds(mm'.items, mm.items[k].id)) =>
                mop'.op = "cleanup"]_vars

\* retrieve() has just returned a record whose expiry time has passed.
C39_Witness ==
    /\ mop.op = "retrieve"
    /\ \E k \in 1..Len(mop.ids) : Expired(Returned(k), mm.clock)
====
